---- MODULE Spec2Model ----
(***************************************************************************)
(* Model of the estel interpreter core: the lexer (parser/lexer.rs), the   *)
(* parser (parser/parser.rs) and the executor (parser/executor.rs).        *)
(*                                                                         *)
(* Source text is a sequence of one-character strings.  A token is a       *)
(* record [class, start, line]; a token class is a record whose field k    *)
(* names the TokenType variant.                                            *)
(***************************************************************************)
EXTENDS Integers, Sequences, FiniteSets, TLC

VARIABLES
    source,      \* Lexer.source
    lexer,       \* Lexer.line, Lexer.pos, Lexer.token_start
    tokens,      \* the token vector lex builds, then Parser.tokens
    pc,          \* position of the lexer / parser pipeline
    pos,         \* Parser.pos
    stmts,       \* local stmts of Parser::parse
    errors,      \* local errors of Parser::parse
    recorded,    \* number of StmtError values constructed so far
    result,      \* what Parser::parse returned
    program,     \* the Block handed to Executor::execute_code
    scopes,      \* Executor.scopes
    frames,      \* the executor's call stack (execute_code / execute_block)
    xpc,         \* position of the executor
    calls,       \* number of execute_code calls made on the Executor
    calc         \* a Literal operation: its operands and what it returned

lexvars == <<source, lexer, tokens>>
parsevars == <<pos, stmts, errors, recorded, result>>
execvars == <<program, scopes, frames, xpc, calls, calc>>
vars == <<source, lexer, tokens, pc, pos, stmts, errors, recorded, result,
          program, scopes, frames, xpc, calls, calc>>

----------------------------------------------------------------------------
(* Characters                                                              *)

None == "NONE"

DigitSeq == <<"0", "1", "2", "3", "4", "5", "6", "7", "8", "9">>
Digits == {DigitSeq[i] : i \in 1..10}
DigitVal(c) == (CHOOSE i \in 1..10 : DigitSeq[i] = c) - 1

Letters ==
    {"a", "b", "c", "d", "e", "f", "g", "h", "i", "j", "k", "l", "m",
     "n", "o", "p", "q", "r", "s", "t", "u", "v", "w", "x", "y", "z",
     "A", "B", "C", "D", "E", "F", "G", "H", "I", "J", "K", "L", "M",
     "N", "O", "P", "Q", "R", "S", "T", "U", "V", "W", "X", "Y", "Z"}

\* the characters at which lex_number and lex_keyword_or_identifier stop
WordBreak ==
    {" ", "\r", "\n", "\t", ";", "(", ")", "{", "}", "+", "-", "*", "/",
     "%", "=", ">", "<"}

I32Max == 2147483647

----------------------------------------------------------------------------
(* Token classes (parser/token.rs)                                         *)

TLiteral(lit) == [k |-> "Literal", lit |-> lit]
TOperator(op) == [k |-> "Operator", op |-> op]
TUnary(un) == [k |-> "Unary", un |-> un]
TError(err) == [k |-> "Error", err |-> err]
TKeyword(kw) == [k |-> "Keyword", kw |-> kw]
TIdent(name) == [k |-> "Ident", name |-> name]
TPlain(k) == [k |-> k]
\* the outcome of a call that panics instead of returning a token class
Panic == [k |-> "Panic"]

LNumber(n) == [t |-> "Number", n |-> n]
LFloat(text) == [t |-> "Float", ftext |-> text]
LString(s) == [t |-> "String", s |-> s]
LBool(b) == [t |-> "Bool", b |-> b]

\* str::parse::<i32>() on a run of decimal digits: the value, or -1 when it
\* does not fit an i32 (the Err that new_number_literal unwraps)
RECURSIVE parse_i32(_, _, _)
parse_i32(text, i, acc) ==
    IF i > Len(text) THEN acc
    ELSE LET d == DigitVal(text[i]) IN
         IF acc > (I32Max - d) \div 10 THEN -1
         ELSE parse_i32(text, i + 1, acc * 10 + d)

new_number_literal(text) ==
    LET n == parse_i32(text, 1, 0) IN
    IF n < 0 THEN Panic ELSE TLiteral(LNumber(n))

\* text is digits with exactly one '.', which f32 parsing always accepts
new_float_literal(text) == TLiteral(LFloat(text))

new_string_literal(text) == TLiteral(LString(text))

new_operator(text) ==
    IF text = <<"+">> THEN TOperator("Add")
    ELSE IF text = <<"-">> THEN TOperator("Sub")
    ELSE IF text = <<"*">> THEN TOperator("Mul")
    ELSE IF text = <<"/">> THEN TOperator("Div")
    ELSE IF text = <<">">> THEN TOperator("Greater")
    ELSE IF text = <<"<">> THEN TOperator("Less")
    ELSE IF text = <<">", "=">> THEN TOperator("GreaterEqual")
    ELSE IF text = <<"<", "=">> THEN TOperator("LessEqual")
    ELSE IF text = <<"=", "=">> THEN TOperator("Equal")
    ELSE IF text = <<"!", "=">> THEN TOperator("NotEqual")
    ELSE IF text = <<"o", "r">> THEN TOperator("Or")
    ELSE IF text = <<"a", "n", "d">> THEN TOperator("And")
    ELSE Panic

\* variant of precedence: additive operators above multiplicative ones
precedence_additive_first(op) ==
    IF op = "Or" THEN 1
    ELSE IF op = "And" THEN 2
    ELSE IF op \in {"Equal", "NotEqual"} THEN 3
    ELSE IF op \in {"Greater", "Less", "GreaterEqual", "LessEqual"} THEN 4
    ELSE IF op \in {"Add", "Sub"} THEN 6
    ELSE 5
precedence(op) ==
    IF op = "Or" THEN 1
    ELSE IF op = "And" THEN 2
    ELSE IF op \in {"Equal", "NotEqual"} THEN 3
    ELSE IF op \in {"Greater", "Less", "GreaterEqual", "LessEqual"} THEN 4
    ELSE IF op \in {"Add", "Sub"} THEN 5
    ELSE 6

new_keyword_src(text) ==
    IF text = <<"p", "r", "i", "n", "t">> THEN "Print"
    ELSE IF text = <<"l", "e", "t">> THEN "Let"
    ELSE None

\* the same, with the `while` keyword that parser.rs matches on
new_keyword(text) ==
    IF text = <<"w", "h", "i", "l", "e">> THEN "While"
    ELSE new_keyword_src(text)

----------------------------------------------------------------------------
(* Lexer (parser/lexer.rs)                                                 *)

Lexer_new == [line |-> 1, pos |-> 0, token_start |-> 0]

current_char(src, l) ==
    IF l.pos >= Len(src) THEN None ELSE src[l.pos + 1]

advance(l) == [l EXCEPT !.pos = @ + 1, !.token_start = @ + 1]

\* variant of sync_stop: the skipping stops at once
sync_stop_at_once(ch) == TRUE
\* the characters at which synchronize_position returns
sync_stop(ch) == ch \in {" ", "\n"}

RECURSIVE synchronize_position(_, _)
synchronize_position(src, l) ==
    LET ch == current_char(src, l) IN
    IF ch = None \/ sync_stop(ch) THEN l
    ELSE synchronize_position(src, advance(l))

InvalidToken == TError("InvalidTokenError")

RECURSIVE lex_number(_, _, _, _)
lex_number(src, l, number, is_float) ==
    LET ch == current_char(src, l)
        done == [l |-> l,
                 tt |-> IF is_float THEN new_float_literal(number)
                        ELSE new_number_literal(number)]
    IN
    IF ch = None THEN done
    ELSE IF ch \in Digits
         THEN lex_number(src, advance(l), Append(number, ch), is_float)
    ELSE IF ch = "."
         THEN IF ~is_float
              THEN lex_number(src, advance(l), Append(number, ch), TRUE)
              ELSE [l |-> l, tt |-> InvalidToken]
    ELSE IF ch \in WordBreak THEN done
    ELSE [l |-> l, tt |-> InvalidToken]

\* the character an escape sequence pushes, <<>> when it pushes nothing
Escape(ch) ==
    IF ch = "n" THEN <<"\n">>
    ELSE IF ch = "r" THEN <<"\r">>
    ELSE IF ch = "t" THEN <<"\t">>
    ELSE IF ch = "\\" THEN <<"\\">>
    ELSE IF ch = "'" THEN <<"'">>
    ELSE IF ch = "\"" THEN <<"\"">>
    ELSE <<>>

RECURSIVE lex_string_loop(_, _, _, _)
lex_string_loop(src, l, start_char, string) ==
    LET ch == current_char(src, l) IN
    IF ch = None THEN [l |-> l, tt |-> TError("UnterminatedStringError")]
    ELSE IF ch = start_char
         THEN [l |-> advance(l), tt |-> new_string_literal(string)]
    ELSE IF ch = "\\"
         THEN LET l1 == advance(l)
                  nx == current_char(src, l1)
              IN lex_string_loop(src, advance(l1), start_char,
                     IF nx = None THEN string ELSE string \o Escape(nx))
    ELSE lex_string_loop(src, advance(l), start_char, Append(string, ch))

\* variant of lex_string: the literal ends at a double quote whichever
\* quote opened it
lex_string_double(src, l) ==
    lex_string_loop(src, advance(l), "\"", <<>>)
lex_string(src, l) ==
    lex_string_loop(src, advance(l), current_char(src, l), <<>>)

classify_word(word) ==
    IF new_keyword(word) # None THEN TKeyword(new_keyword(word))
    ELSE IF word = <<"a", "n", "d">> \/ word = <<"o", "r">>
         THEN new_operator(word)
    ELSE IF word = <<"t", "r", "u", "e">> \/ word = <<"f", "a", "l", "s", "e">>
         THEN TLiteral(LBool(word = <<"t", "r", "u", "e">>))
    ELSE TIdent(word)

RECURSIVE lex_keyword_or_identifier(_, _, _)
lex_keyword_or_identifier(src, l, word) ==
    LET ch == current_char(src, l) IN
    IF ch = None THEN [l |-> l, tt |-> classify_word(word)]
    ELSE IF ch \in Letters \cup Digits \cup {"_"}
         THEN lex_keyword_or_identifier(src, advance(l), Append(word, ch))
    ELSE IF ch \in WordBreak THEN [l |-> l, tt |-> classify_word(word)]
    ELSE [l |-> l, tt |-> InvalidToken]

\* the '-' arm: unary after an operator or at the start, binary otherwise
\* variant of minus_class: a '-' after a left parenthesis is a negation too
minus_class_after_paren(toks) ==
    IF toks # <<>>
    THEN IF toks[Len(toks)].class.k \in {"Operator", "Lparen"}
         THEN TUnary("Neg")
         ELSE new_operator(<<"-">>)
    ELSE TUnary("Neg")
minus_class(toks) ==
    IF toks # <<>>
    THEN IF toks[Len(toks)].class.k = "Operator" THEN TUnary("Neg")
         ELSE new_operator(<<"-">>)
    ELSE TUnary("Neg")

\* an arm of the match that yields None: no token is added
NoToken == [k |-> "NoToken"]

\* the '\n' arm: no second terminator right after a terminator
newline_class(toks) ==
    IF toks # <<>>
    THEN IF toks[Len(toks)].class.k = "StmtEnd" THEN NoToken
         ELSE TPlain("StmtEnd")
    ELSE TPlain("StmtEnd")

\* the match on ch: the lexer after the arm and the class it yields
lex_match(src, l, toks) ==
    LET ch == current_char(src, l)
        l1 == advance(l)
        nx == current_char(src, l1)
    IN
    IF ch \in Digits THEN lex_number(src, l, <<>>, FALSE)
    ELSE IF ch \in Letters THEN lex_keyword_or_identifier(src, l, <<>>)
    ELSE IF ch \in {"\"", "'"} THEN lex_string(src, l)
    ELSE IF ch \in {"+", "/", "*", "%"}
         THEN [l |-> l1, tt |-> new_operator(<<ch>>)]
    ELSE IF ch = "-" THEN [l |-> l1, tt |-> minus_class(toks)]
    ELSE IF ch \in {">", "<"}
         THEN IF nx = "="
              THEN [l |-> advance(l1), tt |-> new_operator(<<ch, "=">>)]
              ELSE [l |-> l1, tt |-> new_operator(<<ch>>)]
    ELSE IF ch = "!"
         THEN IF nx = "="
              THEN [l |-> advance(l1), tt |-> new_operator(<<"!", "=">>)]
              ELSE [l |-> l1, tt |-> TUnary("Not")]
    ELSE IF ch = "="
         THEN IF nx = "="
              THEN [l |-> advance(l1), tt |-> new_operator(<<"=", "=">>)]
              ELSE [l |-> l1, tt |-> TPlain("Assign")]
    ELSE IF ch = "(" THEN [l |-> l1, tt |-> TPlain("Lparen")]
    ELSE IF ch = ")" THEN [l |-> l1, tt |-> TPlain("Rparen")]
    ELSE IF ch = "{" THEN [l |-> l1, tt |-> TPlain("Lbrace")]
    ELSE IF ch = "}" THEN [l |-> l1, tt |-> TPlain("Rbrace")]
    ELSE IF ch = "\r" THEN [l |-> l1, tt |-> NoToken]
    ELSE IF ch = ";" THEN [l |-> l1, tt |-> TPlain("StmtEnd")]
    ELSE IF ch = "\n"
         THEN [l |-> [line |-> l.line + 1, pos |-> l1.pos, token_start |-> 0],
               tt |-> newline_class(toks)]
    ELSE IF ch \in {" ", "\t"} THEN [l |-> l1, tt |-> NoToken]
    ELSE [l |-> l, tt |-> InvalidToken]

\* one iteration of the loop of lex: [l, toks, panic]
lex_iteration(src, l, toks) ==
    LET m == lex_match(src, l, toks) IN
    IF m.tt.k = "Panic" THEN [l |-> m.l, toks |-> toks, panic |-> TRUE]
    ELSE IF m.tt.k = "NoToken" THEN [l |-> m.l, toks |-> toks, panic |-> FALSE]
    ELSE [l |-> IF m.tt.k = "Error" THEN synchronize_position(src, m.l)
                ELSE m.l,
          toks |-> Append(toks, [class |-> m.tt,
                                 start |-> l.token_start,
                                 line |-> l.line]),
          panic |-> FALSE]

Eof_token(l) ==
    [class |-> TPlain("Eof"), start |-> l.token_start, line |-> l.line]

\* Lexer::new(src).lex(): [toks, panic]
RECURSIVE lex_from(_, _, _)
lex_from(src, l, toks) ==
    IF current_char(src, l) = None
    THEN [toks |-> Append(toks, Eof_token(l)), panic |-> FALSE]
    ELSE LET it == lex_iteration(src, l, toks) IN
         IF it.panic THEN [toks |-> toks, panic |-> TRUE]
         ELSE lex_from(src, it.l, it.toks)

lex(src) == lex_from(src, Lexer_new, <<>>)

----------------------------------------------------------------------------
(* Expressions, statements and parse errors                                *)

new_literal(lit) == [e |-> "Literal", lit |-> lit]
new_ident(name) == [e |-> "Ident", name |-> name]
\* Expr::Add, Expr::Sub, ...: the variant carries the operator's name
new_binary_op(left, right, opr) == [e |-> opr, l |-> left, r |-> right]
new_unary_op(x, unr) ==
    [e |-> IF unr = "Neg" THEN "Negate" ELSE "Not", x |-> x]

ExpectTokenError(expect, token) ==
    [x |-> "ExpectTokenError", expect |-> expect, token |-> token]
ExprUnterminatedParenthesis(token) ==
    [x |-> "UnterminatedParenthesis", token |-> token]

ExprError_get_position(err) == <<err.token.line, err.token.start>>

StmtErr(se, token) == [se |-> se, token |-> token]
ExpectToken(expected, token) ==
    [se |-> "ExpectToken", expected |-> expected, token |-> token]
InvalidExpression(err) == [se |-> "InvalidExpression", error |-> err]

StmtError_get_position(err) ==
    IF err.se = "InvalidExpression" THEN ExprError_get_position(err.error)
    ELSE <<err.token.line, err.token.start>>

----------------------------------------------------------------------------
(* Parser (parser/parser.rs)                                               *)

Last(s) == s[Len(s)]
Pop(s) == SubSeq(s, 1, Len(s) - 1)

get_current_token(toks, p) ==
    IF p >= Len(toks) THEN toks[Len(toks)] ELSE toks[p + 1]

\* Outcomes of make_expr: [r |-> "Ok", expr], [r |-> "None"],
\* [r |-> "Err", error], [r |-> "Panic"] (unwrap of an empty operand stack)
ExprPanic == [r |-> "Panic"]

\* One arm of the token loop of make_expr yields
\*   [st |-> "next" | "redo", operands, operators, expect], or
\*   [st |-> "err", error], or [st |-> "panic"].
ArmNext(operands, operators, expect) ==
    [st |-> "next", operands |-> operands, operators |-> operators,
     expect |-> expect]
ArmErr(error) == [st |-> "err", error |-> error]
ArmPanic == [st |-> "panic"]

\* reduce the binary operator top over the two topmost operands
reduce_binary(operands, top) ==
    Append(Pop(Pop(operands)),
           new_binary_op(operands[Len(operands) - 1], Last(operands), top))

reduce_unary(operands, top) ==
    Append(Pop(operands), new_unary_op(Last(operands), top))

operand_arm(token, operands, operators, expect) ==
    IF expect = "Operator" THEN ArmErr(ExpectTokenError(expect, token))
    ELSE ArmNext(Append(operands,
                        IF token.class.k = "Literal"
                        THEN new_literal(token.class.lit)
                        ELSE new_ident(token.class.name)),
                 operators, "Operator")

operator_arm(token, operands, operators, expect) ==
    IF expect = "Operand" THEN ArmErr(ExpectTokenError(expect, token))
    ELSE IF operators # <<>> /\ Last(operators).class.k = "Operator"
    THEN IF precedence(Last(operators).class.op) >= precedence(token.class.op)
         THEN IF Len(operands) < 2 THEN ArmPanic
              ELSE ArmNext(reduce_binary(operands, Last(operators).class.op),
                           Append(Pop(operators), token), "Operand")
         ELSE ArmNext(operands, Append(operators, token), "Operand")
    ELSE IF operators # <<>> /\ Last(operators).class.k = "Unary"
    THEN IF operands = <<>> THEN ArmPanic
         ELSE [st |-> "redo",
               operands |-> reduce_unary(operands, Last(operators).class.un),
               operators |-> Pop(operators), expect |-> expect]
    ELSE ArmNext(operands, Append(operators, token), "Operand")

\* the Unary arm and the Lparen arm
prefix_arm(token, operands, operators, expect) ==
    IF expect = "Operator" THEN ArmErr(ExpectTokenError(expect, token))
    ELSE ArmNext(operands, Append(operators, token), expect)

\* the loop of the Rparen arm
RECURSIVE rparen_loop(_, _, _)
rparen_loop(operands, operators, expect) ==
    IF operators = <<>> THEN ArmNext(operands, operators, expect)
    ELSE IF Last(operators).class.k = "Lparen"
    THEN ArmNext(operands, Pop(operators), expect)
    ELSE IF operands = <<>> THEN ArmPanic
    ELSE IF Last(operators).class.k = "Operator"
    THEN IF Len(operands) < 2 THEN ArmPanic
         ELSE rparen_loop(reduce_binary(operands, Last(operators).class.op),
                          Pop(operators), expect)
    ELSE rparen_loop(Pop(operands), operators, expect)

rparen_arm(token, operands, operators, expect) ==
    IF expect = "Operand" THEN ArmErr(ExpectTokenError(expect, token))
    ELSE rparen_loop(operands, operators, expect)

expr_arm(token, operands, operators, expect) ==
    IF token.class.k \in {"Literal", "Ident"}
    THEN operand_arm(token, operands, operators, expect)
    ELSE IF token.class.k = "Operator"
    THEN operator_arm(token, operands, operators, expect)
    ELSE IF token.class.k \in {"Unary", "Lparen"}
    THEN prefix_arm(token, operands, operators, expect)
    ELSE IF token.class.k = "Rparen"
    THEN rparen_arm(token, operands, operators, expect)
    ELSE ArmErr(ExpectTokenError("Operand", token))

\* "Pop the remaining operators" and return the last operand
\* the error of the final drain for a left parenthesis still on the stack
\* (unterminated_parenthesis), and a variant of it: the bottom of the stack
unterminated_parenthesis_bottom(operators) ==
    [r |-> "Err", error |-> ExprUnterminatedParenthesis(operators[1])]
unterminated_parenthesis(operators) ==
    [r |-> "Err", error |-> ExprUnterminatedParenthesis(Last(operators))]

RECURSIVE drain(_, _)
drain(operands, operators) ==
    IF operators = <<>>
    THEN IF operands = <<>> THEN ExprPanic
         ELSE [r |-> "Ok", expr |-> Last(operands)]
    ELSE IF Last(operators).class.k = "Lparen"
    THEN unterminated_parenthesis(operators)
    ELSE IF Last(operators).class.k = "Operator"
    THEN IF Len(operands) < 2 THEN ExprPanic
         ELSE drain(reduce_binary(operands, Last(operators).class.op),
                    Pop(operators))
    ELSE IF operands = <<>> THEN ExprPanic
    ELSE drain(reduce_unary(operands, Last(operators).class.un),
               Pop(operators))

\* the token loop of make_expr; run holds the tokens still to be read
RECURSIVE expr_loop(_, _, _, _, _)
expr_loop(run, operands, operators, expect, cur) ==
    IF run = <<>>
    THEN IF expect = "Operand"
         THEN [r |-> "Err", error |-> ExpectTokenError(expect, cur)]
         ELSE drain(operands, operators)
    ELSE LET a == expr_arm(Head(run), operands, operators, expect) IN
         IF a.st = "err" THEN [r |-> "Err", error |-> a.error]
         ELSE IF a.st = "panic" THEN ExprPanic
         ELSE expr_loop(IF a.st = "redo" THEN run ELSE Tail(run),
                        a.operands, a.operators, a.expect, cur)

\* cur is self.get_current_token() at the time of the call
make_expr(run, cur) ==
    IF run = <<>> THEN [r |-> "None"]
    ELSE expr_loop(run, <<>>, <<>>, "Operand", cur)

\* Outcomes of the statement makers: [r |-> "Ok", stmt], [r |-> "Err",
\* error], [r |-> "Panic"]
check_expression(expr, cur) ==
    IF expr.r = "Ok" THEN [r |-> "Ok", expr |-> expr.expr]
    ELSE IF expr.r = "None"
    THEN [r |-> "Err", error |-> StmtErr("ExpectedExpression", cur)]
    ELSE IF expr.r = "Err"
    THEN [r |-> "Err", error |-> InvalidExpression(expr.error)]
    ELSE [r |-> "Panic"]

SExpr(expr) == [s |-> "Expr", expr |-> expr]
SPrint(expr) == [s |-> "Print", expr |-> expr]
SAssign(name, expr) == [s |-> "Assign", name |-> name, expr |-> expr]
SReassign(name, expr) == [s |-> "Reassign", name |-> name, expr |-> expr]
SWhile(cond, body) == [s |-> "While", cond |-> cond, body |-> body]
SBlock(ss) == [s |-> "Block", stmts |-> ss]
SNone == [s |-> "None"]

\* Ok(Stmt::...(self.check_expression(expr)?)): the statement made of a
\* checked expression, or the error of the check
checked_stmt(chk, s, name) ==
    IF chk.r # "Ok" THEN chk
    ELSE [r |-> "Ok",
          stmt |-> IF s = "Assign" THEN SAssign(name, chk.expr)
                   ELSE IF s = "Reassign" THEN SReassign(name, chk.expr)
                   ELSE IF s = "Print" THEN SPrint(chk.expr)
                   ELSE SExpr(chk.expr)]

make_let_stmt(ts, cur) ==
    IF Len(ts) < 3
    THEN [r |-> "Err", error |-> StmtErr("IncompleteStatement", ts[1])]
    ELSE IF ts[2].class.k # "Ident"
    THEN [r |-> "Err", error |-> ExpectToken(TIdent(<<>>), ts[2])]
    ELSE IF ts[3].class.k # "Assign"
    THEN [r |-> "Err", error |-> ExpectToken(TPlain("Assign"), ts[3])]
    ELSE checked_stmt(
             check_expression(make_expr(SubSeq(ts, 4, Len(ts)), cur), cur),
             "Assign", ts[2].class.name)

make_print_stmt(ts, cur) ==
    checked_stmt(check_expression(make_expr(Tail(ts), cur), cur),
                 "Print", <<>>)

make_expr_stmt(ts, cur) ==
    checked_stmt(check_expression(make_expr(ts, cur), cur), "Expr", <<>>)

make_ident_stmt(ts, cur) ==
    IF Len(ts) = 1 THEN make_expr_stmt(ts, cur)
    ELSE IF ts[2].class.k = "Assign"
    THEN checked_stmt(
             check_expression(make_expr(SubSeq(ts, 3, Len(ts)), cur), cur),
             "Reassign", ts[1].class.name)
    ELSE make_expr_stmt(ts, cur)

make_statement(ts, cur) ==
    IF ts[1].class.k = "Keyword" /\ ts[1].class.kw = "Let"
    THEN make_let_stmt(ts, cur)
    ELSE IF ts[1].class.k = "Keyword" /\ ts[1].class.kw = "Print"
    THEN make_print_stmt(ts, cur)
    ELSE IF ts[1].class.k = "Ident" THEN make_ident_stmt(ts, cur)
    ELSE IF ts[1].class.k \in {"Literal", "Lparen", "Unary"}
    THEN make_expr_stmt(ts, cur)
    ELSE [r |-> "Err", error |-> StmtErr("InvalidStartToken", ts[1])]

\* Outcomes of make_block:
\*   [r |-> "Some", stmt] is Ok(Some(stmt)), [r |-> "NoStmt"] is Ok(None),
\*   [r |-> "Err", errors] is Err(StmtErrors), [r |-> "Panic"];
\* pos is Parser.pos after the call, made counts the StmtError values the
\* call constructed.
BlockPanic(p) == [r |-> "Panic", pos |-> p, made |-> 0]

\* the tokens of a non-block statement: [pos, ts]
RECURSIVE collect_stmt(_, _, _)
collect_stmt(toks, p, ts) ==
    IF get_current_token(toks, p).class.k = "StmtEnd"
    THEN [pos |-> p, ts |-> ts]
    ELSE LET ts1 == Append(ts, get_current_token(toks, p)) IN
         IF get_current_token(toks, p + 1).class.k
                \in {"Eof", "Rbrace", "Lbrace"}
         THEN [pos |-> p + 1, ts |-> ts1]
         ELSE collect_stmt(toks, p + 1, ts1)

statement_arm(toks, p) ==
    LET c == collect_stmt(toks, p, <<>>) IN
    IF c.ts = <<>> THEN [r |-> "NoStmt", pos |-> c.pos + 1, made |-> 0]
    ELSE LET st == make_statement(c.ts, get_current_token(toks, c.pos)) IN
         IF st.r = "Ok"
         THEN [r |-> "Some", stmt |-> st.stmt, pos |-> c.pos, made |-> 0]
         ELSE IF st.r = "Err"
         THEN [r |-> "Err", errors |-> <<st.error>>, pos |-> c.pos,
               made |-> 1]
         ELSE BlockPanic(c.pos)

\* "synchronize the position to the next line" after a stray right brace
RECURSIVE skip_to_stmt_end(_, _)
skip_to_stmt_end(toks, p) ==
    IF get_current_token(toks, p).class.k \in {"StmtEnd", "Eof"} THEN p
    ELSE skip_to_stmt_end(toks, p + 1)

\* variant of rbrace_arm: the stray brace is reported and left in place
rbrace_arm_stay(toks, p) ==
    [r |-> "Err",
     errors |-> <<StmtErr("UnexpectedBlockClose", get_current_token(toks, p))>>,
     pos |-> p, made |-> 1]
rbrace_arm(toks, p) ==
    [r |-> "Err",
     errors |-> <<StmtErr("UnexpectedBlockClose", get_current_token(toks, p))>>,
     pos |-> skip_to_stmt_end(toks, p + 1), made |-> 1]

\* the tokens of a while condition: [pos, ts, closed]
RECURSIVE collect_condition(_, _, _)
collect_condition(toks, p, ts) ==
    LET k == get_current_token(toks, p).class.k IN
    IF k = "Rparen" THEN [pos |-> p, ts |-> ts, closed |-> TRUE]
    ELSE IF k \in {"Eof", "Lbrace", "Rbrace"}
    THEN [pos |-> p, ts |-> ts, closed |-> FALSE]
    ELSE collect_condition(toks, p + 1, Append(ts, get_current_token(toks, p)))

\* the error of a block that meets Eof; start is its opening brace and cur
\* the Eof token
\* variant of unterminated_block: the token at which the block ran out
unterminated_block_at_end(start, cur) == StmtErr("UnterminatedBlock", cur)
unterminated_block(start, cur) == StmtErr("UnterminatedBlock", start)

\* what the block arm returns once its loop has ended (block_result), and
\* a variant of it: the block is returned whatever was recorded
block_result_lenient(ss, errs, p, made) ==
    [r |-> "Some", stmt |-> SBlock(ss), pos |-> p, made |-> made]
block_result(ss, errs, p, made) ==
    IF errs = <<>>
    THEN [r |-> "Some", stmt |-> SBlock(ss), pos |-> p, made |-> made]
    ELSE [r |-> "Err", errors |-> errs, pos |-> p, made |-> made]

\* what the while arm returns once its body has been parsed
while_result(cond, body) ==
    IF body.r = "Some"
    THEN [r |-> "Some", stmt |-> SWhile(cond, body.stmt), pos |-> body.pos,
          made |-> body.made]
    ELSE IF body.r = "NoStmt"
    THEN [r |-> "Some", stmt |-> SWhile(cond, SNone), pos |-> body.pos,
          made |-> body.made]
    ELSE body

RECURSIVE make_block(_, _)
RECURSIVE block_loop(_, _, _, _, _, _)

\* the loop of the block arm; start is the opening brace
block_loop(toks, p, start, ss, errs, made) ==
    LET k == get_current_token(toks, p).class.k IN
    IF k = "Rbrace" THEN block_result(ss, errs, p + 1, made)
    ELSE IF k = "Eof"
    THEN block_result(ss,
                      Append(errs, unterminated_block(
                                       start, get_current_token(toks, p))),
                      p + 1, made + 1)
    ELSE LET b == make_block(toks, p) IN
         IF b.r = "Panic" THEN b
         ELSE block_loop(toks, b.pos, start,
                         IF b.r = "Some" THEN Append(ss, b.stmt) ELSE ss,
                         IF b.r = "Err" THEN errs \o b.errors ELSE errs,
                         made + b.made)

make_block(toks, p) ==
    LET cur == get_current_token(toks, p) IN
    IF cur.class.k = "Lbrace"
    THEN block_loop(toks, p + 1, cur, <<>>, <<>>, 0)
    ELSE IF cur.class.k = "Keyword" /\ cur.class.kw = "While"
    THEN LET paren_start == get_current_token(toks, p + 1) IN
         IF paren_start.class.k # "Lparen"
         THEN [r |-> "Err",
               errors |-> <<ExpectToken(TPlain("Lparen"), paren_start)>>,
               pos |-> p + 1, made |-> 1]
         ELSE LET c == collect_condition(toks, p + 2, <<>>) IN
              IF ~c.closed
              THEN [r |-> "Err",
                    errors |-> <<StmtErr("UnterminatedParenthesis",
                                         paren_start)>>,
                    pos |-> c.pos, made |-> 1]
              ELSE LET expr == make_expr(c.ts, get_current_token(toks, c.pos))
                   IN
                   IF expr.r = "None"
                   THEN [r |-> "Err",
                         errors |-> <<StmtErr("ExpectedExpression",
                                              paren_start)>>,
                         pos |-> c.pos + 1, made |-> 1]
                   ELSE IF expr.r = "Err"
                   THEN [r |-> "Err",
                         errors |-> <<InvalidExpression(expr.error)>>,
                         pos |-> c.pos + 1, made |-> 1]
                   ELSE IF expr.r = "Panic" THEN BlockPanic(c.pos)
                   ELSE while_result(expr.expr, make_block(toks, c.pos + 1))
    ELSE IF cur.class.k = "Rbrace" THEN rbrace_arm(toks, p)
    ELSE statement_arm(toks, p)

\* what Parser::parse returns once its loop has ended
parse_result(ss, errs) ==
    IF errs # <<>> THEN [r |-> "Err", errors |-> errs]
    ELSE [r |-> "Ok", block |-> ss]

----------------------------------------------------------------------------
(* Source texts                                                            *)

\* bounds of the source families
MaxLexemes == 3
MaxChainOps == 2

RECURSIVE Join(_)
Join(ws) ==
    IF ws = <<>> THEN <<>>
    ELSE IF Len(ws) = 1 THEN ws[1]
    ELSE ws[1] \o <<" ">> \o Join(Tail(ws))

SeqsUpTo(S, n) == UNION {[1..m -> S] : m \in 0..n}

WLet == <<"l", "e", "t">>
WPrint == <<"p", "r", "i", "n", "t">>
WWhile == <<"w", "h", "i", "l", "e">>
WOr == <<"o", "r">>
WAnd == <<"a", "n", "d">>

\* every text of at most MaxLexemes of these lexemes, one space between them
StmtLexemes ==
    {WLet, WPrint, WWhile, <<"a">>, <<"5">>, <<"=">>, <<"+">>, <<"-">>,
     <<"!">>, <<"(">>, <<")">>, <<"{">>, <<"}">>, <<";">>}
LexemeSources == {Join(ws) : ws \in SeqsUpTo(StmtLexemes, MaxLexemes)}

\* every chain a op b op c ... of at most MaxChainOps binary operators
ChainOps ==
    {<<"+">>, <<"-">>, <<"*">>, <<"/">>, <<">">>, <<"<">>, <<">", "=">>,
     <<"<", "=">>, <<"=", "=">>, <<"!", "=">>, WOr, WAnd}
OperandNames == <<"a", "b", "c", "d", "e", "f">>
RECURSIVE ChainLexemes(_, _)
ChainLexemes(ops, i) ==
    IF i > Len(ops) THEN <<>>
    ELSE <<ops[i], <<OperandNames[i + 1]>>>> \o ChainLexemes(ops, i + 1)
ChainSource(ops) == Join(<<<<"a">>>> \o ChainLexemes(ops, 1))
ChainSources ==
    {ChainSource(ops) : ops \in SeqsUpTo(ChainOps, MaxChainOps) \ {<<>>}}

\* the texts of the repository's parser tests and of the specification
N(c) == <<c>>
TestSources ==
    {Join(ws) : ws \in {
        <<N("5"), N("*"), N("5"), N("+"), N("3")>>,
        <<N("5"), N("+"), N("5"), N("*"), N("3")>>,
        <<N("8"), N("-"), N("3"), N("-"), N("2")>>,
        <<N("a"), N("-"), N("b"), N("*"), N("c"), N("-"), N("d")>>,
        <<N("6"), N("+"), N("-"), N("5"), N("*"), N("3")>>,
        <<N("5"), N("*"), N("-"), N("5"), N("+"), N("3")>>,
        <<N("!"), N("a"), WAnd, N("b")>>,
        <<N("!"), N("!"), N("a")>>,
        <<N("-"), N("("), N("a"), N("+"), N("b"), N(")")>>,
        <<N("!"), N("("), N("a"), WOr, N("b"), N(")")>>,
        <<N("("), N("5"), N("+"), N("-"), N("3"), N(")")>>,
        <<N("5"), N("*"), N("("), N("5"), N("+"), N("3"), N(")"), N("*"),
          N("2")>>,
        <<N("("), N("1"), N("+"), N("2")>>,
        <<N("("), N("("), N("a"), N(")"), N("+"), N("b")>>,
        <<N("{"), WPrint, N("1"), N(";")>>,
        <<N("{"), N("{"), WPrint, N("5"), N(";"), N("}")>>,
        <<WWhile, N("("), N("a"), N(")"), N("{"), WPrint, N("b"), N(";")>>,
        <<WWhile, N("("), N("a"), N("<"), N("5"), N(")"), N("{"), WPrint,
          N("a"), N(";"), N("}")>>,
        <<WWhile, N("("), N("a"), N("+"), N(")"), WPrint, N("c"), N(";")>>,
        <<WWhile, N("+"), N(";"), WLet>>,
        <<WLet, N(";"), WLet, N("="), N("5")>>,
        <<N("5"), N("+"), N(";"), N("5"), N("+"), N("=")>>,
        <<WLet, N("a"), N("="), N("5"), N(";"), N("{"), WLet, N("b"), N("="),
          N("4"), N(";"), N("a"), N("="), N("3"), N(";"), N("}")>>,
        <<N("{"), WLet, N(";"), N("}"), WPrint, N("a")>>,
        <<<<"2", "1", "4", "7", "4", "8", "3", "6", "4", "7">>>>,
        <<<<"2", "1", "4", "7", "4", "8", "3", "6", "4", "8">>>>,
        <<N("("), N("!"), N("a"), N(")")>>,
        <<N("("), N("("), N("!"), N("a"), N(")")>>,
        <<WWhile, N("("), N("("), N("a")>>,
        <<N("1"), N("@"), N("2")>>,
        <<<<"5", "-", "3", "*", "-", "2">>>>,
        <<<<"5", "-", "-", "3">>>>,
        <<<<"(", "-", "5", ")">>, <<"-", "3">>>>,
        <<<<"a", "=", "-", "5">>>>,
        <<N("-"), N("-"), N("a")>>,
        <<<<"5", ";", ";", "6">>>>,
        <<<<"5", ";", "\n", "6">>>>,
        <<<<"5", "\n", ";", "\n", "\n", "6", "\n">>>>,
        <<<<"\n", "\n", "5">>>>
    }}

\* texts with malformed runs
ErrorSources ==
    { <<"1", "@", "2", " ", "3">>,
      <<"@", "@", " ", "5">>,
      <<"5", "a", "+", "b", " ", "c">>,
      <<"1", ".", "2", ".", "3", "+", "4">>,
      <<"a", "@", "\n", "@", "b">>,
      <<"@", "\t", "b", " ", "c">>,
      <<"a", "$", "(", ")", " ", "$">> }

\* texts that start with a string literal
StringSources ==
    { <<"\"", "a", "'", "b", "\"">>,
      <<"'", "a", "\"", "b", "'">>,
      <<"\"", "a", "\\", "\"", "b", "\"">>,
      <<"'", "a", "\\", "'", "b", "'">>,
      <<"\"", "a", "\\", "\"">>,
      <<"\"", "a", "\\">>,
      <<"\"", "a", "b">>,
      <<"'", "a", "\"">>,
      <<"\"", "a", "\\", "\\", "\"">>,
      <<"\"", "a", "\\", "n", "b", "\"">>,
      <<"\"", "\"">>,
      <<"\"", "a", " ", "b", "\"", " ", "c">>,
      <<"'", "a", "'", "+", "\"", "b", "\"">>,
      <<"\"", "a", "\n", "b", "\"", " ", "c">>,
      <<"'", "\n", "\n", "'", "\n", "5">> }

\* texts with a '-' where an operand is expected
SrcLetMinus == Join(<<WLet, N("a"), N("="), <<"-", "5">>>>)
SrcParenMinus == <<"(", "-", "5", ")">>
MinusSources ==
    { SrcLetMinus,
      SrcParenMinus,
      <<"-", " ", "-", "5">>,
      <<"!", "-", "5">>,
      Join(<<WPrint, <<"-", "5">>>>),
      <<"5", ";", "-", "3">> }

\* loops whose condition holds parentheses of its own
WhileSources ==
    { Join(<<WWhile, N("("), N("a"), N("<"), N("5"), N(")"), N("{"),
             N("}")>>),
      Join(<<WWhile, <<"(", "(", "a", ")">>, N("<"), <<"5", ")">>, N("{"),
             N("}")>>),
      Join(<<WWhile, <<"(", "!", "(", "a">>, WOr, <<"b", ")", ")">>, N("{"),
             N("}")>>),
      Join(<<WWhile, <<"(", "a">>, N("+"), <<"(", "b", ")", ")">>, WPrint,
             N("a")>>) }

\* x op y for the symbolic binary operators, with and without spaces
SymbolOps ==
    {<<"+">>, <<"*">>, <<"/">>, <<">">>, <<"<">>, <<">", "=">>,
     <<"<", "=">>, <<"=", "=">>, <<"!", "=">>}
LeftOperands == {<<"a">>, <<"5">>}
RightOperands == {<<"b">>, <<"3">>}
TightSources ==
    { x \o op \o y : x \in LeftOperands, op \in SymbolOps,
                     y \in RightOperands }
SpacedSources ==
    { Join(<<x, op, y>>) : x \in LeftOperands, op \in SymbolOps,
                          y \in RightOperands }

Sources ==
    LexemeSources \cup ChainSources \cup TestSources \cup ErrorSources
    \cup StringSources \cup MinusSources \cup WhileSources
    \cup TightSources \cup SpacedSources

----------------------------------------------------------------------------
(* The pipeline: Lexer::lex, the driver's check for lexical errors, and    *)
(* Parser::parse                                                           *)

NoResult == [r |-> "NoResult"]

check_lex_errors(toks) == \E i \in 1..Len(toks) : toks[i].class.k = "Error"

ParserIdle ==
    /\ pos = 0 /\ stmts = <<>> /\ errors = <<>> /\ recorded = 0
    /\ result = NoResult
NoCalc == [op |-> "none"]
ExecIdle ==
    /\ program = <<>> /\ scopes = <<>> /\ frames = <<>> /\ xpc = "idle"
    /\ calls = 0 /\ calc = NoCalc

Init ==
    /\ source \in Sources
    /\ lexer = Lexer_new
    /\ tokens = <<>>
    /\ pc = "lex"
    /\ ParserIdle
    /\ ExecIdle

\* one iteration of the loop of Lexer::lex
LexStep ==
    /\ pc = "lex"
    /\ current_char(source, lexer) # None
    /\ LET it == lex_iteration(source, lexer, tokens) IN
         /\ lexer' = it.l
         /\ tokens' = it.toks
         /\ pc' = IF it.panic THEN "lex_panic" ELSE "lex"
    /\ UNCHANGED <<source, parsevars, execvars>>

\* the end of Lexer::lex: the Eof token
LexEof ==
    /\ pc = "lex"
    /\ current_char(source, lexer) = None
    /\ tokens' = Append(tokens, Eof_token(lexer))
    /\ pc' = "lexed"
    /\ UNCHANGED <<source, lexer, parsevars, execvars>>

\* the driver stops before parsing when the lexer reported an error
LexCheck ==
    /\ pc = "lexed"
    /\ pc' = IF check_lex_errors(tokens) THEN "lex_error" ELSE "parse"
    /\ UNCHANGED <<lexvars, parsevars, execvars>>

\* one iteration of the loop of Parser::parse
ParseStep ==
    /\ pc = "parse"
    /\ get_current_token(tokens, pos).class.k # "Eof"
    /\ LET b == make_block(tokens, pos) IN
         /\ pos' = b.pos
         /\ recorded' = recorded + b.made
         /\ stmts' = IF b.r = "Some" THEN Append(stmts, b.stmt) ELSE stmts
         /\ errors' = IF b.r = "Err" THEN errors \o b.errors ELSE errors
         /\ pc' = IF b.r = "Panic" THEN "parse_panic" ELSE "parse"
    /\ UNCHANGED <<lexvars, result, execvars>>

\* the end of Parser::parse
ParseReturn ==
    /\ pc = "parse"
    /\ get_current_token(tokens, pos).class.k = "Eof"
    /\ result' = parse_result(stmts, errors)
    /\ pc' = "parsed"
    /\ UNCHANGED <<lexvars, pos, stmts, errors, recorded, execvars>>

Next == LexStep \/ LexEof \/ LexCheck \/ ParseStep \/ ParseReturn

Spec == Init /\ [][Next]_vars

----------------------------------------------------------------------------
(* Values (parser/token.rs, impl Literal).  The programs of ExecPrograms   *)
(* hold Number and Bool values.                                            *)

Ok(v) == [ok |-> TRUE, v |-> v]
Err(err) == [ok |-> FALSE, err |-> err]

add(self, other) ==
    IF self.t = "Number"
    THEN IF other.t = "Number" THEN Ok(LNumber(self.n + other.n))
         ELSE Err("InvalidTypeError")
    ELSE Err("InvalidTypeError")

\* An f32 is modelled by the rational num/den it rounds, in lowest terms
\* with den > 0; den = 0 stands for the values a division by zero yields:
\* 1/0 is inf, -1/0 is -inf and 0/0 is NaN.
Abs(n) == IF n < 0 THEN 0 - n ELSE n
Sign(n) == IF n < 0 THEN 0 - 1 ELSE IF n = 0 THEN 0 ELSE 1
RECURSIVE Gcd(_, _)
Gcd(a, b) == IF b = 0 THEN a ELSE Gcd(b, a % b)
F32(num, den) ==
    IF den = 0 THEN [t |-> "Float", num |-> Sign(num), den |-> 0]
    ELSE LET g == Gcd(Abs(num), Abs(den)) IN
         [t |-> "Float", num |-> Sign(den) * (num \div g),
          den |-> Abs(den) \div g]
\* num as f32
as_f32(n) == F32(n, 1)
\* the comparisons of f32: every comparison with NaN is false
IsNaN(x) == x.num = 0 /\ x.den = 0
f32_lt(x, y) ==
    IF IsNaN(x) \/ IsNaN(y) THEN FALSE
    ELSE IF x.den = 0 /\ y.den = 0 THEN x.num < y.num
    ELSE x.num * y.den < y.num * x.den
f32_eq(x, y) == ~IsNaN(x) /\ ~IsNaN(y) /\ x.num = y.num /\ x.den = y.den

greater(self, other) ==
    IF self.t = "Number"
    THEN IF other.t = "Number" THEN Ok(LBool(self.n > other.n))
         ELSE IF other.t = "Float"
              THEN Ok(LBool(f32_lt(other, as_f32(self.n))))
         ELSE Err("InvalidTypeError")
    ELSE IF self.t = "Float"
    THEN IF other.t = "Number"
         THEN Ok(LBool(f32_lt(as_f32(other.n), self)))
         ELSE IF other.t = "Float" THEN Ok(LBool(f32_lt(other, self)))
         ELSE Err("InvalidTypeError")
    ELSE Err("InvalidTypeError")

less(self, other) ==
    IF self.t = "Number"
    THEN IF other.t = "Number" THEN Ok(LBool(self.n < other.n))
         ELSE IF other.t = "Float"
              THEN Ok(LBool(f32_lt(as_f32(self.n), other)))
         ELSE Err("InvalidTypeError")
    ELSE IF self.t = "Float"
    THEN IF other.t = "Number"
         THEN Ok(LBool(f32_lt(self, as_f32(other.n))))
         ELSE IF other.t = "Float" THEN Ok(LBool(f32_lt(self, other)))
         ELSE Err("InvalidTypeError")
    ELSE Err("InvalidTypeError")

is_truthy(self) ==
    IF self.t = "Number" THEN self.n # 0
    ELSE IF self.t = "String" THEN self.s # <<>>
    ELSE IF self.t = "Float" THEN ~f32_eq(self, as_f32(0))
    ELSE self.b

\* the derived PartialEq of Literal: values of different variants differ
equal(self, other) ==
    LBool(/\ self.t = other.t
          /\ IF self.t = "Float" THEN f32_eq(self, other) ELSE self = other)

or(self, other) == LBool(is_truthy(self) \/ is_truthy(other))

\* the ? of greater_equal and less_equal: an error is returned as it is
greater_equal(self, other) ==
    IF greater(self, other).ok
    THEN Ok(or(greater(self, other).v, equal(self, other)))
    ELSE greater(self, other)

less_equal(self, other) ==
    IF less(self, other).ok
    THEN Ok(or(less(self, other).v, equal(self, other)))
    ELSE less(self, other)
f32_mul(x, y) == F32(x.num * y.num, x.den * y.den)
f32_div(x, y) == F32(x.num * y.den, x.den * y.num)

\* for _ in 0..num { new_string.push_str(&str) }
RECURSIVE push_str_times(_, _, _)
push_str_times(new_string, str, num) ==
    IF num <= 0 THEN new_string
    ELSE push_str_times(new_string \o str, str, num - 1)

\* the String a Number and a String multiply to (repeat_string), and a
\* variant of it that runs the loop once more
repeat_string_inclusive(str, num) == push_str_times(<<>>, str, num + 1)
repeat_string(str, num) == push_str_times(<<>>, str, num)

mul(self, other) ==
    IF self.t = "Number"
    THEN IF other.t = "Number" THEN Ok(LNumber(self.n * other.n))
         ELSE IF other.t = "String"
         THEN Ok(LString(repeat_string(other.s, self.n)))
         ELSE IF other.t = "Float"
         THEN Ok(f32_mul(as_f32(self.n), other))
         ELSE Err("InvalidTypeError")
    ELSE IF self.t = "String"
    THEN IF other.t = "Number"
         THEN Ok(LString(repeat_string(self.s, other.n)))
         ELSE Err("InvalidTypeError")
    ELSE IF self.t = "Float"
    THEN IF other.t = "Number" THEN Ok(f32_mul(self, as_f32(other.n)))
         ELSE IF other.t = "Float" THEN Ok(f32_mul(self, other))
         ELSE Err("InvalidTypeError")
    ELSE Err("InvalidTypeError")

div(self, other) ==
    IF self.t = "Number"
    THEN IF other.t = "Number"
         THEN Ok(f32_div(as_f32(self.n), as_f32(other.n)))
         ELSE IF other.t = "Float" THEN Ok(f32_div(as_f32(self.n), other))
         ELSE Err("InvalidTypeError")
    ELSE IF self.t = "Float"
    THEN IF other.t = "Number" THEN Ok(f32_div(self, as_f32(other.n)))
         ELSE IF other.t = "Float" THEN Ok(f32_div(self, other))
         ELSE Err("InvalidTypeError")
    ELSE Err("InvalidTypeError")

----------------------------------------------------------------------------
(* Executor (parser/executor.rs)                                           *)

\* a Scope is a function from the names it binds to their values
Scope_new == <<>>
Scope_exists(scope, name) == name \in DOMAIN scope
Scope_insert_var(scope, name, value) ==
    [n \in DOMAIN scope \cup {name} |-> IF n = name THEN value ELSE scope[n]]

\* variant of insert_var: the name is bound in the global scope
insert_var_global(sc, name, value) ==
    [sc EXCEPT ![1] = Scope_insert_var(sc[1], name, value)]
insert_var(sc, name, value) ==
    [sc EXCEPT ![Len(sc)] = Scope_insert_var(sc[Len(sc)], name, value)]

\* the innermost scope that binds name, 0 when there is none
Innermost(sc, name) ==
    IF \E i \in 1..Len(sc) : Scope_exists(sc[i], name)
    THEN CHOOSE i \in 1..Len(sc) :
             /\ Scope_exists(sc[i], name)
             /\ \A j \in (i + 1)..Len(sc) : ~Scope_exists(sc[j], name)
    ELSE 0

\* [found, scopes]; insert_if_exists_outermost is a variant of it that takes
\* the outermost scope binding the name
insert_if_exists_outermost(sc, name, value) ==
    IF \A i \in 1..Len(sc) : ~Scope_exists(sc[i], name)
    THEN [found |-> FALSE, scopes |-> sc]
    ELSE LET i == CHOOSE j \in 1..Len(sc) :
                      /\ Scope_exists(sc[j], name)
                      /\ \A k \in 1..(j - 1) : ~Scope_exists(sc[k], name)
         IN [found |-> TRUE,
             scopes |-> [sc EXCEPT ![i] = Scope_insert_var(sc[i], name, value)]]
insert_if_exists(sc, name, value) ==
    LET i == Innermost(sc, name) IN
    IF i = 0 THEN [found |-> FALSE, scopes |-> sc]
    ELSE [found |-> TRUE,
          scopes |-> [sc EXCEPT ![i] = Scope_insert_var(sc[i], name, value)]]

get_var(sc, name) ==
    LET i == Innermost(sc, name) IN
    IF i = 0 THEN Err("UndefinedVariableError") ELSE Ok(sc[i][name])

\* Expr::solve: evaluation against the scope chain
RECURSIVE solve(_, _)
solve(expr, sc) ==
    IF expr.e = "Literal" THEN Ok(expr.lit)
    ELSE IF expr.e = "Ident" THEN get_var(sc, expr.name)
    ELSE LET left == solve(expr.l, sc) IN
         IF ~left.ok THEN left
         ELSE LET right == solve(expr.r, sc) IN
              IF ~right.ok THEN right
              ELSE IF expr.e = "Add" THEN add(left.v, right.v)
              ELSE less(left.v, right.v)

\* the scope chain after a Print, Assign, Reassign or Expr statement, and
\* what the statement wrote to stderr: [scopes, failed, report];
\* execute_simple_keeps_binding is a variant of it in which an Assign whose
\* expression failed binds the name to a default value
Silent == "none"
\* "Error: Variable {} does not exist in scope"
NotInScope == "VariableNotInScope"
\* what the Ok arm of a Reassign yields (reassign_result), and a variant of
\* it that reports nothing
reassign_result_silent(ins) ==
    [scopes |-> ins.scopes, failed |-> FALSE, report |-> Silent]
reassign_result(ins) ==
    [scopes |-> ins.scopes, failed |-> ~ins.found,
     report |-> IF ins.found THEN Silent ELSE NotInScope]
execute_simple_keeps_binding(stmt, sc) ==
    LET res == solve(stmt.expr, sc) IN
    IF ~res.ok
    THEN [scopes |-> IF stmt.s = "Assign"
                     THEN insert_var(sc, stmt.name, LNumber(0)) ELSE sc,
          failed |-> TRUE, report |-> res.err]
    ELSE IF stmt.s = "Assign"
    THEN [scopes |-> insert_var(sc, stmt.name, res.v), failed |-> FALSE,
          report |-> Silent]
    ELSE IF stmt.s = "Reassign"
    THEN reassign_result(insert_if_exists(sc, stmt.name, res.v))
    ELSE [scopes |-> sc, failed |-> FALSE, report |-> Silent]
execute_simple(stmt, sc) ==
    LET res == solve(stmt.expr, sc) IN
    IF ~res.ok THEN [scopes |-> sc, failed |-> TRUE, report |-> res.err]
    ELSE IF stmt.s = "Assign"
    THEN [scopes |-> insert_var(sc, stmt.name, res.v), failed |-> FALSE,
          report |-> Silent]
    ELSE IF stmt.s = "Reassign"
    THEN reassign_result(insert_if_exists(sc, stmt.name, res.v))
    ELSE [scopes |-> sc, failed |-> FALSE, report |-> Silent]

\* execute_block: the scope pushed on entry and popped on exit
\* variant of enter_block: the new scope starts as a copy of the enclosing one
enter_block_copy(sc) == Append(sc, sc[Len(sc)])
enter_block(sc) == Append(sc, Scope_new)
\* variant of leave_block: the scope stays on the stack
leave_block_keep(sc) == sc
leave_block(sc) == Pop(sc)

\* A frame is one running execute_code or execute_block: the statements it
\* iterates over, the index of the current one, recheck when the current
\* statement is a While whose body has just been executed, failed when one
\* of its statements reported an error, unwound when a block that it ran,
\* directly or not, was left after one of its statements had failed, and
\* report is what its last statement wrote to stderr.
Frame(kind, ss) ==
    [kind |-> kind, stmts |-> ss, i |-> 1, recheck |-> FALSE,
     failed |-> FALSE, unwound |-> FALSE, report |-> Silent]
Top == frames[Len(frames)]
CurrentStmt == Top.stmts[Top.i]
SetTop(f) == [frames EXCEPT ![Len(frames)] = f]
Advance(f) == [f EXCEPT !.i = @ + 1, !.recheck = FALSE]

\* statements of the executor's programs: a While holds its body statements
XWhile(cond, ss) == [s |-> "While", cond |-> cond, stmts |-> ss]

----------------------------------------------------------------------------
(* Programs handed to the executor                                         *)

MaxProgramSize == 3

XA == <<"a">>
XB == <<"b">>
XC == <<"c">>
XX == <<"x">>
Num(n) == new_literal(LNumber(n))
True == new_literal(LBool(TRUE))

SimpleStmts ==
    { SAssign(XA, Num(1)),
      SReassign(XA, new_binary_op(new_ident(XA), Num(1), "Add")),
      SReassign(XA, True),
      SReassign(XX, Num(1)),
      SAssign(XB, new_ident(XC)),
      SPrint(new_binary_op(True, Num(1), "Add")),
      SExpr(new_ident(XA)) }

Conditions ==
    { new_binary_op(new_ident(XA), Num(2), "Less"), new_ident(XC) }

\* the statements, and the statement sequences, made of exactly n statements
RECURSIVE StmtsOfSize(_), SeqsOfSize(_)
StmtsOfSize(n) ==
    (IF n = 1 THEN SimpleStmts ELSE {})
    \cup { SBlock(ss) : ss \in SeqsOfSize(n - 1) }
    \cup { XWhile(cond, ss) : cond \in Conditions, ss \in SeqsOfSize(n - 1) }
SeqsOfSize(n) ==
    IF n = 0 THEN { <<>> }
    ELSE UNION { { <<st>> \o rest : st \in StmtsOfSize(k),
                                    rest \in SeqsOfSize(n - k) } : k \in 1..n }

ExecPrograms == UNION { SeqsOfSize(n) : n \in 0..MaxProgramSize }

\* programs of the executor's tests and of the language's description
ScopingProgram ==
    << SAssign(XA, Num(3)),
       SBlock(<< SAssign(XA, Num(5)), SAssign(XB, new_ident(XA)) >>) >>
ShadowProgram ==
    << SAssign(XA, Num(3)),
       SBlock(<< SAssign(XB, Num(1)),
                 SBlock(<< SReassign(XA, Num(4)),
                           SAssign(XA, Num(5)),
                           SReassign(XA, Num(7)),
                           SReassign(XB, new_ident(XA)) >>) >>) >>
NestedLoopProgram ==
    << XWhile(new_binary_op(new_ident(XA), Num(2), "Less"),
              << SAssign(XB, Num(0)),
                 XWhile(new_binary_op(new_ident(XB), Num(1), "Less"),
                        << SReassign(XB, True) >>),
                 SReassign(XA,
                           new_binary_op(new_ident(XA), Num(1), "Add")) >>) >>
MissProgram ==
    << SReassign(XX, new_binary_op(True, Num(1), "Add")),
       SReassign(XX, Num(1)),
       SBlock(<< SReassign(XX, Num(1)), SAssign(XX, Num(2)) >>) >>
\* while (a < 2) { let b = a; a = a + 1 }
BasicLoopProgram ==
    << XWhile(new_binary_op(new_ident(XA), Num(2), "Less"),
              << SAssign(XB, new_ident(XA)),
                 SReassign(XA,
                           new_binary_op(new_ident(XA), Num(1), "Add")) >>),
       SAssign(XC, new_ident(XB)) >>
ExecTestPrograms ==
    { ScopingProgram, ShadowProgram, NestedLoopProgram, MissProgram,
      BasicLoopProgram }

\* the global scope handed to Executor::new
Globals == { Scope_new, Scope_insert_var(Scope_new, XA, LNumber(0)) }

----------------------------------------------------------------------------
(* The executor as a state machine: SpecExec                               *)

PipelineIdle ==
    /\ source = <<>> /\ lexer = Lexer_new /\ tokens = <<>> /\ pc = "exec"
    /\ ParserIdle

\* Executor::new followed by the call of execute_code
InitExec ==
    /\ PipelineIdle
    /\ program \in ExecPrograms \cup ExecTestPrograms
    /\ scopes \in { <<global>> : global \in Globals }
    /\ frames = <<Frame("code", program)>>
    /\ xpc = "run"
    /\ calls = 1
    /\ calc = NoCalc

Running == xpc = "run" /\ Top.i <= Len(Top.stmts)

\* Print, Assign, Reassign and Expr statements
ExecSimple ==
    /\ Running
    /\ CurrentStmt.s \in {"Print", "Assign", "Reassign", "Expr"}
    /\ LET done == execute_simple(CurrentStmt, scopes) IN
       /\ scopes' = done.scopes
       /\ frames' = SetTop([Advance(Top) EXCEPT
                               !.failed = @ \/ done.failed,
                               !.report = done.report])
    /\ UNCHANGED <<lexvars, pc, parsevars, program, xpc, calls, calc>>

\* entry of execute_block
EnterBlock(ss) ==
    /\ scopes' = enter_block(scopes)
    /\ frames' = Append(frames, Frame("block", ss))

ExecBlock ==
    /\ Running
    /\ CurrentStmt.s = "Block"
    /\ EnterBlock(CurrentStmt.stmts)
    /\ UNCHANGED <<lexvars, pc, parsevars, program, xpc, calls, calc>>

\* variant of LoopTest: a failed condition runs the body once more
LoopTest_body_on_error ==
    LET res == solve(CurrentStmt.cond, scopes) IN
    IF ~res.ok \/ is_truthy(res.v)
    THEN EnterBlock(CurrentStmt.stmts)
    ELSE /\ scopes' = scopes
         /\ frames' = SetTop([Advance(Top) EXCEPT !.report = Silent])
\* the condition of a While solved: the body is entered when it is truthy,
\* the statement is over when it is not or when it failed
LoopTest ==
    LET res == solve(CurrentStmt.cond, scopes) IN
    IF res.ok /\ is_truthy(res.v)
    THEN EnterBlock(CurrentStmt.stmts)
    ELSE /\ scopes' = scopes
         /\ frames' = SetTop([Advance(Top) EXCEPT
                                 !.failed = @ \/ ~res.ok,
                                 !.report = IF res.ok THEN Silent
                                            ELSE res.err])

ExecWhile ==
    /\ Running
    /\ CurrentStmt.s = "While"
    /\ ~Top.recheck
    /\ LoopTest
    /\ UNCHANGED <<lexvars, pc, parsevars, program, xpc, calls, calc>>

WhileRecheck ==
    /\ Running
    /\ CurrentStmt.s = "While"
    /\ Top.recheck
    /\ LoopTest
    /\ UNCHANGED <<lexvars, pc, parsevars, program, xpc, calls, calc>>

\* exit of execute_block, back in the statement that called it
BlockExit ==
    /\ xpc = "run"
    /\ Top.kind = "block"
    /\ Top.i > Len(Top.stmts)
    /\ scopes' = leave_block(scopes)
    /\ LET caller == frames[Len(frames) - 1]
           back == [caller EXCEPT
                       !.unwound = @ \/ Top.failed \/ Top.unwound] IN
       frames' = [Pop(frames) EXCEPT ![Len(frames) - 1] =
                     IF caller.stmts[caller.i].s = "While"
                     THEN [back EXCEPT !.recheck = TRUE]
                     ELSE Advance(back)]
    /\ UNCHANGED <<lexvars, pc, parsevars, program, xpc, calls, calc>>

\* execute_code returns
ExecReturn ==
    /\ xpc = "run"
    /\ Top.kind = "code"
    /\ Top.i > Len(Top.stmts)
    /\ xpc' = "done"
    /\ UNCHANGED <<lexvars, pc, parsevars, program, scopes, frames, calls,
                   calc>>

NextExec ==
    ExecSimple \/ ExecBlock \/ ExecWhile \/ WhileRecheck \/ BlockExit
    \/ ExecReturn

SpecExec == InitExec /\ [][NextExec]_vars

----------------------------------------------------------------------------
(* One Executor, execute_code called again and again: SpecRepl             *)

MaxCalls == 3

APlusOne == new_binary_op(new_ident(XA), Num(1), "Add")

\* the programs handed to the successive calls
ReplLines ==
    { <<>>,
      << SAssign(XA, Num(5)) >>,
      << SAssign(XA, True) >>,
      << SAssign(XB, new_ident(XA)) >>,
      << SReassign(XA, APlusOne) >>,
      << SPrint(new_ident(XB)), SExpr(APlusOne) >>,
      << SBlock(<< SAssign(XA, Num(3)), SReassign(XB, new_ident(XA)) >>) >>,
      << XWhile(new_binary_op(new_ident(XA), Num(2), "Less"),
                << SReassign(XA, APlusOne) >>) >> }

\* Executor::new followed by the first call of execute_code
InitRepl ==
    /\ PipelineIdle
    /\ program \in ReplLines
    /\ scopes \in { <<global>> : global \in Globals }
    /\ frames = <<Frame("code", program)>>
    /\ xpc = "run"
    /\ calls = 1
    /\ calc = NoCalc

\* variant of ExecAgain: each call starts from an empty global scope
ExecAgain_new_global ==
    /\ xpc = "done"
    /\ calls < MaxCalls
    /\ \E next \in ReplLines :
           /\ program' = next
           /\ frames' = <<Frame("code", next)>>
    /\ scopes' = <<Scope_new>>
    /\ xpc' = "run"
    /\ calls' = calls + 1
    /\ UNCHANGED <<lexvars, pc, parsevars, calc>>
\* a further call of execute_code on the same Executor: the statements of
\* the new program run over the scopes the earlier calls left
ExecAgain ==
    /\ xpc = "done"
    /\ calls < MaxCalls
    /\ \E next \in ReplLines :
           /\ program' = next
           /\ frames' = <<Frame("code", next)>>
    /\ xpc' = "run"
    /\ calls' = calls + 1
    /\ UNCHANGED <<lexvars, pc, parsevars, scopes, calc>>

NextRepl == NextExec \/ ExecAgain

SpecRepl == InitRepl /\ [][NextRepl]_vars

----------------------------------------------------------------------------
(* Literal operations applied to pairs of values: SpecLit                  *)

MaxNumber == 3
MaxRepeat == 2

RECURSIVE Repeat(_, _)
Repeat(str, n) == IF n = 0 THEN <<>> ELSE str \o Repeat(str, n - 1)
Numbers == { LNumber(n) : n \in (0 - 2)..MaxNumber }
Floats == { F32(0, 1), F32(5, 2), F32(0 - 1, 1) }
Strings == { LString(Repeat(<<"H", "i">>, n)) : n \in 0..MaxRepeat }
Bools == { LBool(TRUE), LBool(FALSE) }
Literals == Numbers \cup Floats \cup Strings \cup Bools

InitLit ==
    /\ PipelineIdle
    /\ program = <<>> /\ scopes = <<>> /\ frames = <<>> /\ xpc = "idle"
    /\ calls = 0
    /\ calc \in { [op |-> "pending", self |-> x, other |-> y] :
                      x \in Literals, y \in Literals }

Called(op, res) ==
    [op |-> op, self |-> calc.self, other |-> calc.other, res |-> res]

CallMul ==
    /\ calc.op = "pending"
    /\ calc' = Called("mul", mul(calc.self, calc.other))
    /\ UNCHANGED <<lexvars, pc, parsevars, program, scopes, frames, xpc,
                   calls>>

CallDiv ==
    /\ calc.op = "pending"
    /\ calc' = Called("div", div(calc.self, calc.other))
    /\ UNCHANGED <<lexvars, pc, parsevars, program, scopes, frames, xpc,
                   calls>>

\* the four relational operations on one pair of values
CallCompare ==
    /\ calc.op = "pending"
    /\ calc' = [op |-> "compare", self |-> calc.self, other |-> calc.other,
                less |-> less(calc.self, calc.other),
                greater |-> greater(calc.self, calc.other),
                less_equal |-> less_equal(calc.self, calc.other),
                greater_equal |-> greater_equal(calc.self, calc.other)]
    /\ UNCHANGED <<lexvars, pc, parsevars, program, scopes, frames, xpc,
                   calls>>

NextLit == CallMul \/ CallDiv \/ CallCompare

SpecLit == InitLit /\ [][NextLit]_vars

----------------------------------------------------------------------------
(* Reference notions for the properties                                    *)

Finished == pc \in {"parsed", "lex_error", "lex_panic", "parse_panic"}
Lexed == pc \in {"lexed", "lex_error", "parse", "parsed", "parse_panic"}

\* the tokens before Eof
Run == SubSeq(tokens, 1, Len(tokens) - 1)

IsOperand(t) == t.class.k \in {"Literal", "Ident"}
IsBinary(t) == t.class.k = "Operator"
IsUnary(t) == t.class.k = "Unary"
Leaf(t) ==
    IF t.class.k = "Literal" THEN new_literal(t.class.lit)
    ELSE new_ident(t.class.name)
Bin(op, l, r) == [e |-> op, l |-> l, r |-> r]
Un(un, x) == [e |-> IF un = "Neg" THEN "Negate" ELSE "Not", x |-> x]

\* The grammar of expressions, by precedence climbing:
\*   expr(m)  ::= unary (op expr(prec(op)+1))*   for operators of prec >= m
\*   unary    ::= Unary unary | operand | "(" expr(1) ")"
\* Each yields [ok, tree, next].
RefFail == [ok |-> FALSE]
\* the binding order of the binary operators, lowest first:
\* or < and < (==, !=) < (>, <, >=, <=) < (+, -) < (*, /)
RefOrder ==
    << {"Or"}, {"And"}, {"Equal", "NotEqual"},
       {"Greater", "Less", "GreaterEqual", "LessEqual"},
       {"Add", "Sub"}, {"Mul", "Div"} >>
RefLevel(op) == CHOOSE n \in 1..Len(RefOrder) : op \in RefOrder[n]

RECURSIVE RefUnary(_, _)
RECURSIVE RefExpr(_, _, _)
RECURSIVE RefClimb(_, _, _)

RefUnary(ts, i) ==
    IF i > Len(ts) THEN RefFail
    ELSE IF IsOperand(ts[i])
    THEN [ok |-> TRUE, tree |-> Leaf(ts[i]), next |-> i + 1]
    ELSE IF IsUnary(ts[i])
    THEN LET u == RefUnary(ts, i + 1) IN
         IF ~u.ok THEN RefFail
         ELSE [ok |-> TRUE, tree |-> Un(ts[i].class.un, u.tree),
               next |-> u.next]
    ELSE IF ts[i].class.k = "Lparen"
    THEN LET g == RefExpr(ts, i + 1, 1) IN
         IF ~g.ok \/ g.next > Len(ts) THEN RefFail
         ELSE IF ts[g.next].class.k # "Rparen" THEN RefFail
         ELSE [ok |-> TRUE, tree |-> g.tree, next |-> g.next + 1]
    ELSE RefFail

\* lhs is [tree, next, m]: extend it with the operators of precedence >= m
RefClimb(ts, lhs, m) ==
    IF lhs.next > Len(ts) THEN [ok |-> TRUE, tree |-> lhs.tree, next |-> lhs.next]
    ELSE IF ~IsBinary(ts[lhs.next])
    THEN [ok |-> TRUE, tree |-> lhs.tree, next |-> lhs.next]
    ELSE IF RefLevel(ts[lhs.next].class.op) < m
    THEN [ok |-> TRUE, tree |-> lhs.tree, next |-> lhs.next]
    ELSE LET op == ts[lhs.next].class.op
             rhs == RefExpr(ts, lhs.next + 1, RefLevel(op) + 1)
         IN IF ~rhs.ok THEN RefFail
            ELSE RefClimb(ts, [tree |-> Bin(op, lhs.tree, rhs.tree),
                               next |-> rhs.next], m)

RefExpr(ts, i, m) ==
    LET u == RefUnary(ts, i) IN
    IF ~u.ok THEN RefFail
    ELSE RefClimb(ts, [tree |-> u.tree, next |-> u.next], m)

Grammatical(ts) ==
    LET g == RefExpr(ts, 1, 1) IN g.ok /\ g.next = Len(ts) + 1
RefTree(ts) == RefExpr(ts, 1, 1).tree

\* y occurs in the expression x
RECURSIVE HasSubtree(_, _)
HasSubtree(x, y) ==
    \/ x = y
    \/ /\ x.e \in {"Negate", "Not"}
       /\ HasSubtree(x.x, y)
    \/ /\ x.e \notin {"Literal", "Ident", "Negate", "Not"}
       /\ (HasSubtree(x.l, y) \/ HasSubtree(x.r, y))

OkExpr(tree) == [r |-> "Ok", block |-> <<SExpr(tree)>>]

----------------------------------------------------------------------------
(* Properties of the lexer and the parser                                  *)

\* C1: Lexer::lex returns for every source (no panic), and the token
\* sequence it returns ends with Eof and holds no other Eof token.
C1_LexReturnsEofTerminated ==
    /\ pc # "lex_panic"
    /\ Lexed =>
         /\ tokens # <<>>
         /\ Last(tokens).class.k = "Eof"
         /\ \A i \in 1..(Len(tokens) - 1) : tokens[i].class.k # "Eof"

\* C2: parse returns Ok exactly when no StmtError was constructed at any
\* depth, and otherwise Err with every constructed error in a non-empty list.
C2_ParseAllOrNothing ==
    pc = "parsed" =>
        /\ result.r \in {"Ok", "Err"}
        /\ (result.r = "Ok") <=> (recorded = 0)
        /\ result.r = "Err" =>
             /\ result.errors # <<>>
             /\ Len(result.errors) = recorded

\* an error made inside a block, with a well-formed statement after the block
C2_Witness ==
    /\ pc = "parsed"
    /\ result.r = "Err"
    /\ tokens[1].class.k = "Lbrace"
    /\ \E i \in 1..Len(result.errors) :
           result.errors[i].se = "IncompleteStatement"
    /\ \E i \in 2..Len(tokens) :
           /\ tokens[i - 1].class.k = "Rbrace"
           /\ tokens[i].class.k = "Keyword"

\* C3: on a token sequence without Error tokens Parser::parse returns; it
\* never pops an empty operand stack.
C3_ParseNeverPanics == pc # "parse_panic"

\* x op1 y op2 z with binary operators of different precedence
IsPairRun ==
    /\ Len(Run) = 5
    /\ IsOperand(Run[1]) /\ IsOperand(Run[3]) /\ IsOperand(Run[5])
    /\ IsBinary(Run[2]) /\ IsBinary(Run[4])
    /\ RefLevel(Run[2].class.op) # RefLevel(Run[4].class.op)

PairTree ==
    IF RefLevel(Run[2].class.op) > RefLevel(Run[4].class.op)
    THEN Bin(Run[4].class.op,
             Bin(Run[2].class.op, Leaf(Run[1]), Leaf(Run[3])), Leaf(Run[5]))
    ELSE Bin(Run[2].class.op, Leaf(Run[1]),
             Bin(Run[4].class.op, Leaf(Run[3]), Leaf(Run[5])))

\* C4: x op1 y op2 z with operators of different precedence parses to the
\* tree that groups the operator of higher precedence first, on either side.
C4_HigherPrecedenceFirst ==
    (Lexed /\ pc # "lexed" /\ pc # "parse" /\ IsPairRun) =>
        /\ pc = "parsed"
        /\ result = OkExpr(PairTree)

\* the operator of higher precedence stands on the right
C4_Witness ==
    /\ pc = "parsed" /\ IsPairRun
    /\ RefLevel(Run[2].class.op) < RefLevel(Run[4].class.op)
    /\ result = OkExpr(Bin(Run[2].class.op, Leaf(Run[1]),
                           Bin(Run[4].class.op, Leaf(Run[3]), Leaf(Run[5]))))

\* operand (op operand)* without parentheses and unary operators
IsChainRun ==
    /\ Len(Run) >= 3
    /\ Len(Run) % 2 = 1
    /\ \A i \in 1..Len(Run) :
           IF i % 2 = 1 THEN IsOperand(Run[i]) ELSE IsBinary(Run[i])

\* C5: a parenthesis-free chain of any length parses to the tree in which
\* higher precedence groups first and equal precedence associates to the
\* left.
C5_LeftAssociativeChains ==
    (pc \in {"parsed", "parse_panic"} /\ IsChainRun) =>
        /\ pc = "parsed"
        /\ result = OkExpr(RefTree(Run))

\* C6: in an expression, each unary operator is applied to exactly the
\* operand or parenthesised group that follows it.
C6_UnaryBindsTightest ==
    (pc \in {"parsed", "parse_panic"} /\ Grammatical(Run)
        /\ \E i \in 1..Len(Run) : IsUnary(Run[i])) =>
        /\ pc = "parsed"
        /\ result.r = "Ok"
        /\ Len(result.block) = 1
        /\ result.block[1].s = "Expr"
        /\ \A i \in 1..Len(Run) :
               IsUnary(Run[i]) =>
                   HasSubtree(result.block[1].expr, RefUnary(Run, i).tree)

\* the errors Parser::parse returned
Errs == IF result.r = "Err" THEN result.errors ELSE <<>>
ErrToken(err) ==
    IF err.se = "InvalidExpression" THEN err.error.token ELSE err.token
TokenIndex(t) == CHOOSE i \in 1..Len(tokens) : tokens[i] = t
HasKind(ks) == \E i \in 1..Len(tokens) : tokens[i].class.k \in ks

\* statements are numbered by the terminators before them
StmtNo(i) ==
    1 + Cardinality({j \in 1..(i - 1) : tokens[j].class.k = "StmtEnd"})
StmtTokens(n) ==
    SelectSeq(Run, LAMBDA t :
        t.class.k # "StmtEnd" /\ StmtNo(TokenIndex(t)) = n)
\* the statement is rejected when it is parsed on its own
Malformed(n) ==
    /\ StmtTokens(n) # <<>>
    /\ make_block(Append(StmtTokens(n), Last(tokens)), 0).r = "Err"

\* C7: in a program without braces every malformed statement yields exactly
\* one StmtError, and the errors come in source order.
C7_OneErrorPerStatement ==
    (pc = "parsed" /\ ~HasKind({"Lbrace", "Rbrace"})) =>
        /\ \A i, j \in 1..Len(Errs) :
               i < j => StmtNo(TokenIndex(ErrToken(Errs[i])))
                          < StmtNo(TokenIndex(ErrToken(Errs[j])))
        /\ \A n \in 1..Len(tokens) :
               Malformed(n) =>
                   \E i \in 1..Len(Errs) :
                       StmtNo(TokenIndex(ErrToken(Errs[i]))) = n

\* the '{' tokens that a left-to-right matching of braces leaves open
RECURSIVE OpenBraces(_, _)
OpenBraces(i, stack) ==
    IF i > Len(tokens) THEN stack
    ELSE IF tokens[i].class.k = "Lbrace"
    THEN OpenBraces(i + 1, Append(stack, i))
    ELSE IF tokens[i].class.k = "Rbrace" /\ stack # <<>>
    THEN OpenBraces(i + 1, Pop(stack))
    ELSE OpenBraces(i + 1, stack)

\* a '{' that follows a '}' before the next terminator can be among the
\* tokens discarded after an unexpected '}'; any other '{' opens a block
OpensBlock(i) ==
    /\ tokens[i].class.k = "Lbrace"
    /\ ~\E j \in 1..(i - 1) :
           /\ tokens[j].class.k = "Rbrace"
           /\ \A m \in j..i : tokens[m].class.k # "StmtEnd"

\* C8: every block left open at Eof is reported by an UnterminatedBlock
\* that carries its opening brace, and get_position of every
\* UnterminatedBlock is the position of a '{' of the source.
C8_UnterminatedBlockAtBrace ==
    pc = "parsed" =>
        /\ \A n \in 1..Len(Errs) :
               Errs[n].se = "UnterminatedBlock" =>
                   \E i \in 1..Len(tokens) :
                       /\ tokens[i].class.k = "Lbrace"
                       /\ Errs[n].token = tokens[i]
                       /\ StmtError_get_position(Errs[n])
                              = <<tokens[i].line, tokens[i].start>>
        /\ LET open == OpenBraces(1, <<>>) IN
           \A n \in 1..Len(open) :
               OpensBlock(open[n]) =>
                   \E m \in 1..Len(Errs) :
                       /\ Errs[m].se = "UnterminatedBlock"
                       /\ Errs[m].token = tokens[open[n]]

\* two nested blocks are open at Eof and both braces are reported
C8_Witness ==
    /\ pc = "parsed"
    /\ Len(OpenBraces(1, <<>>)) = 2
    /\ Len(Errs) = 2
    /\ Errs[1].se = "UnterminatedBlock" /\ Errs[2].se = "UnterminatedBlock"
    /\ Errs[1].token = tokens[2] /\ Errs[2].token = tokens[1]

\* the '(' tokens of ts that a left-to-right matching leaves open, and
\* whether some ')' found no '(' to close
RECURSIVE OpenParens(_, _, _)
OpenParens(ts, i, stack) ==
    IF i > Len(ts) THEN stack
    ELSE IF ts[i].class.k = "Lparen"
    THEN OpenParens(ts, i + 1, Append(stack, i))
    ELSE IF ts[i].class.k = "Rparen" /\ stack # <<>>
    THEN OpenParens(ts, i + 1, Pop(stack))
    ELSE OpenParens(ts, i + 1, stack)
RECURSIVE StrayParen(_, _, _)
StrayParen(ts, i, depth) ==
    IF i > Len(ts) THEN FALSE
    ELSE IF ts[i].class.k = "Lparen" THEN StrayParen(ts, i + 1, depth + 1)
    ELSE IF ts[i].class.k = "Rparen"
    THEN depth = 0 \/ StrayParen(ts, i + 1, depth - 1)
    ELSE StrayParen(ts, i + 1, depth)

Closer == [class |-> TPlain("Rparen"), start |-> 0, line |-> 0]
\* ts is an expression but for the closing parentheses missing at its end
LacksOnlyClosers(ts) ==
    LET open == OpenParens(ts, 1, <<>>) IN
    /\ open # <<>>
    /\ ~StrayParen(ts, 1, 0)
    /\ Grammatical(ts \o [n \in 1..Len(open) |-> Closer])

IsParenError(err) ==
    /\ err.se = "InvalidExpression"
    /\ err.error.x = "UnterminatedParenthesis"

ActiveBlocks ==
    Cardinality({ k \in 1..Len(frames) : frames[k].kind = "block" })
C10_ScopesFollowBlocks ==
    xpc \in {"run", "done"} =>
        /\ Len(scopes) = 1 + ActiveBlocks
        /\ xpc = "done" => Len(scopes) = 1 /\ ActiveBlocks = 0
\* execute_code has returned from a program in which a block, nested in a
\* loop or a block, was left after one of its statements had failed
C10_Witness ==
    /\ xpc = "done"
    /\ frames[1].unwound
    /\ Len(scopes) = 1
    /\ \E k \in 1..Len(program) :
           /\ program[k].s \in {"While", "Block"}
           /\ program[k].stmts # <<>>

\* the scope chain differs from the one before the step in the innermost
\* scope only, and there in the binding of name only
OnlyInnermostBinds(name) ==
    /\ Len(scopes') = Len(scopes)
    /\ \A i \in 1..(Len(scopes) - 1) : scopes'[i] = scopes[i]
    /\ DOMAIN scopes'[Len(scopes)] \subseteq
           DOMAIN scopes[Len(scopes)] \cup {name}
    /\ \A n \in DOMAIN scopes[Len(scopes)] :
           /\ n \in DOMAIN scopes'[Len(scopes)]
           /\ n # name => scopes'[Len(scopes)][n] = scopes[Len(scopes)][n]
AtBlockEnd == xpc = "run" /\ Top.kind = "block" /\ Top.i > Len(Top.stmts)

\* C11: an Assign binds its name in the innermost scope only and leaves every
\* enclosing scope as it was; the exit of a block removes the block's scope
\* with all its bindings; after `let a = 3; { let a = 5; let b = a; }` the
\* global scope is exactly {a = 3}.
C11_LetBindsOwnScope ==
    /\ [][ /\ ((Running /\ CurrentStmt.s = "Assign")
                   => OnlyInnermostBinds(CurrentStmt.name))
            /\ (AtBlockEnd => scopes' = SubSeq(scopes, 1, Len(scopes) - 1))
          ]_vars
    /\ [](xpc = "done" /\ program = ScopingProgram
            => scopes = << Scope_insert_var(Scope_new, XA, LNumber(3)) >>)
\* the scoping program has been executed to its end
C11_Witness ==
    /\ xpc = "done"
    /\ program = ScopingProgram
    /\ scopes = << Scope_insert_var(Scope_new, XA, LNumber(3)) >>
    /\ calls = 1

\* the scopes of the chain that bind name, and the statement's value
Binders(name) == { i \in 1..Len(scopes) : name \in DOMAIN scopes[i] }
Value == solve(CurrentStmt.expr, scopes)
RunsReassign == Running /\ CurrentStmt.s = "Reassign"
Deepest(S) == CHOOSE i \in S : \A j \in S : j <= i

\* C12: a Reassign whose expression has a value and whose name is bound
\* changes the binding of the name in the innermost scope that binds it, the
\* one get_var reads afterwards, and nothing else in any scope.
C12_ReassignInnermostBinding ==
    [][ (RunsReassign /\ Value.ok /\ Binders(CurrentStmt.name) # {}) =>
            /\ scopes' = [scopes EXCEPT
                   ![Deepest(Binders(CurrentStmt.name))][CurrentStmt.name] =
                       Value.v]
            /\ get_var(scopes', CurrentStmt.name) = Ok(Value.v)
      ]_vars
\* the name is bound in two scopes and the Reassign changed the inner one
C12_Witness ==
    /\ xpc = "run"
    /\ program = ShadowProgram
    /\ Len(scopes) = 3
    /\ XA \in DOMAIN scopes[3] /\ scopes[3][XA] = LNumber(7)
    /\ scopes[1][XA] = LNumber(4)
    /\ Top.i = 4

\* the step ends the current statement of the running activation
NextStatement ==
    /\ Len(frames') = Len(frames)
    /\ frames'[Len(frames)].i = Top.i + 1
    /\ frames'[Len(frames)].stmts = Top.stmts
UndefinedVariableReports == { NotInScope, "UndefinedVariableError" }
ReassignMiss == RunsReassign /\ Binders(CurrentStmt.name) = {}

\* C13 as stated: every Reassign of a name bound in no scope leaves the scope
\* chain unchanged, is reported as an undefined variable, and execution goes
\* on with the next statement.
C13_ReassignMissAlwaysUndefined ==
    [][ ReassignMiss =>
            /\ scopes' = scopes
            /\ frames'[Len(frames)].report \in UndefinedVariableReports
            /\ NextStatement
      ]_vars
\* C13 amended: a Reassign of a name bound in no scope leaves the scope chain
\* unchanged and execution goes on with the next statement; it is reported
\* as an undefined variable when its expression evaluates successfully, and
\* with the error of the expression when the evaluation fails.
C13_ReassignMiss ==
    [][ ReassignMiss =>
            /\ scopes' = scopes
            /\ NextStatement
            /\ frames'[Len(frames)].failed
            /\ frames'[Len(frames)].report =
                   IF Value.ok THEN NotInScope ELSE Value.err
      ]_vars
\* inside a block, the miss has been reported and the next statement of the
\* block has bound the name in the block's scope only
C13_Witness ==
    /\ program = MissProgram
    /\ Len(scopes) = 2
    /\ Top.i = 3
    /\ Top.failed
    /\ scopes[1] = Scope_new
    /\ scopes[2] = Scope_insert_var(Scope_new, XX, LNumber(2))

RunsSimple ==
    Running /\ CurrentStmt.s \in {"Print", "Assign", "Reassign", "Expr"}
FailedAssignProgram ==
    << SBlock(<< SAssign(XB, new_ident(XC)), SAssign(XA, Num(1)) >>) >>

\* C14: when the expression of a Print, Assign, Reassign or Expr statement
\* fails, the step reports the error, leaves the scope chain as it was and
\* moves to the next statement of the same block.
C14_FailedStatementDropped ==
    [][ (RunsSimple /\ ~Value.ok) =>
            /\ scopes' = scopes
            /\ NextStatement
            /\ frames'[Len(frames)].report = Value.err
      ]_vars
\* in a block, the Assign after a failed Assign has been executed
C14_Witness ==
    /\ program = FailedAssignProgram
    /\ Len(scopes) = 2
    /\ Top.i = 3
    /\ Top.failed
    /\ scopes[2] = Scope_insert_var(Scope_new, XA, LNumber(1))

IsNumeric(x) == x.t \in {"Number", "Float"}
IsZero(x) ==
    \/ x.t = "Number" /\ x.n = 0
    \/ x.t = "Float" /\ x.num = 0 /\ x.den = 1

\* C15: div with a numeric dividend and a divisor that is exactly zero returns
\* the divide-by-zero error.
C15_DivByZeroIsError ==
    (calc.op = "div" /\ IsNumeric(calc.self) /\ IsZero(calc.other)) =>
        calc.res = Err("DivByZeroError")

\* C16: a String times a Number, in either order, is the string repeated that
\* many times, empty when the number is not positive; a String times a
\* Float, a Bool or a String is InvalidTypeError.
Repeated(str, n) == IF n <= 0 THEN <<>> ELSE Repeat(str, n)
C16_StringTimesNumber ==
    calc.op = "mul" =>
        /\ (calc.self.t = "String" /\ calc.other.t = "Number") =>
               calc.res = Ok(LString(Repeated(calc.self.s, calc.other.n)))
        /\ (calc.self.t = "Number" /\ calc.other.t = "String") =>
               calc.res = Ok(LString(Repeated(calc.other.s, calc.self.n)))
        /\ (calc.self.t = "String"
              /\ calc.other.t \in {"Float", "Bool", "String"}) =>
               calc.res = Err("InvalidTypeError")
        /\ (calc.other.t = "String" /\ calc.self.t \in {"Float", "Bool"}) =>
               calc.res = Err("InvalidTypeError")
\* 3 * "Hi" has been computed
C16_Witness ==
    /\ calc.op = "mul"
    /\ calc.self = LNumber(3)
    /\ calc.other = LString(<<"H", "i">>)
    /\ calc.res = Ok(LString(<<"H", "i", "H", "i", "H", "i">>))

\* C17: in the token sequence lex returns no two adjacent tokens are both
\* statement terminators.
C17_NoAdjacentTerminators ==
    Lexed =>
        \A i \in 1..(Len(tokens) - 1) :
            ~(tokens[i].class.k = "StmtEnd" /\ tokens[i + 1].class.k = "StmtEnd")

IsNeg(t) == t.class.k = "Unary" /\ t.class.un = "Neg"
IsSub(t) == t.class.k = "Operator" /\ t.class.op = "Sub"
Count(seq, Test(_)) == Cardinality({ i \in 1..Len(seq) : Test(seq[i]) })
IsMinusChar(ch) == ch = "-"
IsMinusToken(t) == IsNeg(t) \/ IsSub(t)
PlainSource ==
    /\ \A i \in 1..Len(source) : source[i] \notin {"\"", "'"}
    /\ \A i \in 1..Len(tokens) : tokens[i].class.k # "Error"

\* C18: the token of a '-' is a negation when it is the first token or the
\* token before it is a binary operator, and a subtraction in every other
\* case, with or without whitespace around it; every '-' yields one of the
\* two.
C18_MinusByPreviousToken ==
    Lexed =>
        /\ \A i \in 1..Len(tokens) :
               /\ IsNeg(tokens[i]) =>
                      (i = 1 \/ tokens[i - 1].class.k = "Operator")
               /\ IsSub(tokens[i]) =>
                      (i > 1 /\ tokens[i - 1].class.k # "Operator")
        /\ PlainSource =>
               Count(source, IsMinusChar) = Count(tokens, IsMinusToken)
\* 5-3*-2 without whitespace: a subtraction, then a negation
C18_Witness ==
    /\ Lexed
    /\ source = <<"5", "-", "3", "*", "-", "2">>
    /\ Len(tokens) = 7
    /\ IsSub(tokens[2])
    /\ IsNeg(tokens[5])

\* the current statement is a While whose condition fails in the scopes as
\* they are: before the first iteration, or after an iteration
CondFails ==
    /\ Running
    /\ CurrentStmt.s = "While"
    /\ ~solve(CurrentStmt.cond, scopes).ok

\* C19: when the condition of a While fails, before the first iteration or
\* after any iteration, the body is not executed again, the scopes stay as
\* the completed iterations left them, at the depth they had before the
\* loop, and execution goes on with the statement after the loop in the
\* activation that holds the loop (the rest of the body of an enclosing
\* loop included).
C19_FailedConditionEndsLoop ==
    [][ CondFails =>
            /\ scopes' = scopes
            /\ Len(scopes') = Len(frames)
            /\ NextStatement
            /\ frames'[Len(frames)].kind = Top.kind
            /\ ~frames'[Len(frames)].recheck
            /\ frames'[Len(frames)].report = solve(CurrentStmt.cond, scopes).err
            /\ \A d \in 1..(Len(frames) - 1) : frames'[d] = frames[d]
      ]_vars
\* in the nested loops the inner condition has failed after one iteration
\* (true < 1): b keeps the value the iteration gave it and the outer body
\* is at its next statement
C19_Witness ==
    /\ program = NestedLoopProgram
    /\ xpc = "run"
    /\ Len(frames) = 2
    /\ Len(scopes) = 2
    /\ Top.kind = "block"
    /\ Top.i = 3
    /\ Top.failed
    /\ ~Top.recheck
    /\ scopes[2][XB] = LBool(TRUE)
    /\ scopes[1][XA] = LNumber(0)

\* the running statement is a statement of the program itself
AtTopLevel == Running /\ Top.kind = "code"
\* the current statement is a let or a reassignment whose expression has a
\* value
Binds ==
    /\ Running
    /\ CurrentStmt.s \in {"Assign", "Reassign"}
    /\ solve(CurrentStmt.expr, scopes).ok

\* C20: on one Executor the global scope is the scope the top-level
\* statements read and write: the activation of execute_code runs with the
\* global scope alone, a top-level let binds its value there, a new call of
\* execute_code starts with the scopes the earlier calls left, and the
\* global scope changes in no step but an executed Assign or Reassign.
C20_GlobalScopePersists ==
    /\ [](Len(scopes) = Len(frames))
    /\ [][ /\ ((AtTopLevel /\ CurrentStmt.s = "Assign" /\ Binds) =>
                   (/\ Len(scopes') = 1
                    /\ DOMAIN scopes'[1] =
                           DOMAIN scopes[1] \cup {CurrentStmt.name}
                    /\ scopes'[1][CurrentStmt.name] =
                           solve(CurrentStmt.expr, <<scopes[1]>>).v
                    /\ \A n \in DOMAIN scopes[1] \ {CurrentStmt.name} :
                           scopes'[1][n] = scopes[1][n]))
            /\ ((calls' # calls) =>
                   (/\ scopes' = scopes
                    /\ Len(scopes') = 1
                    /\ frames' = <<Frame("code", program')>>))
            /\ ((scopes'[1] # scopes[1]) => Binds)
       ]_vars
\* the first call ran 'let a = 5' over an empty global scope, the second
\* call ran 'let b = a' and has bound b to 5
C20_Witness ==
    /\ calls = 2
    /\ xpc = "done"
    /\ program = << SAssign(XB, new_ident(XA)) >>
    /\ scopes = << Scope_insert_var(Scope_insert_var(Scope_new, XA, LNumber(5)),
                                    XB, LNumber(5)) >>

\* the current statement is a While and its condition has a value
AtLoop ==
    /\ Running
    /\ CurrentStmt.s = "While"
    /\ solve(CurrentStmt.cond, scopes).ok
\* the activation that runs is the body of a While and has run all its
\* statements
AtBodyEnd ==
    /\ AtBlockEnd
    /\ frames[Len(frames) - 1].stmts[frames[Len(frames) - 1].i].s = "While"

\* C21: a While runs its body each time its condition is truthy and ends
\* the first time it is falsy; each execution of the body runs in a newly
\* pushed empty scope, which is popped before the condition is evaluated
\* again, so that the condition, the next iteration and the statements
\* after the loop see the enclosing scopes only, as the body left them.
C21_WhileIterates ==
    /\ []((Running /\ CurrentStmt.s = "While") => Len(scopes) = Len(frames))
    /\ [][ /\ ((AtLoop /\ is_truthy(solve(CurrentStmt.cond, scopes).v)) =>
                   (/\ scopes' = Append(scopes, Scope_new)
                    /\ frames' = Append(frames,
                                        Frame("block", CurrentStmt.stmts))))
            /\ ((AtLoop /\ ~is_truthy(solve(CurrentStmt.cond, scopes).v)) =>
                   (/\ scopes' = scopes
                    /\ NextStatement
                    /\ ~frames'[Len(frames)].recheck))
            /\ (AtBodyEnd =>
                   (/\ scopes' = Pop(scopes)
                    /\ Len(frames') = Len(frames) - 1
                    /\ frames'[Len(frames')].i = frames[Len(frames) - 1].i
                    /\ frames'[Len(frames')].recheck))
       ]_vars
\* while (a < 2) { let b = a; a = a + 1 } has run from a = 0: two
\* iterations, a is 2, and the b of the body is bound nowhere, so that the
\* let c = b after the loop has failed
C21_Witness ==
    /\ program = BasicLoopProgram
    /\ xpc = "done"
    /\ scopes = << Scope_insert_var(Scope_new, XA, LNumber(2)) >>
    /\ Top.failed
    /\ Top.report = "UndefinedVariableError"

\* the step adds an Error token
EmitsError ==
    /\ pc = "lex"
    /\ Len(tokens') = Len(tokens) + 1
    /\ tokens'[Len(tokens')].class.k = "Error"
\* a text of one line without string literals: the start of a token is the
\* offset of its first character
OneLine == \A i \in 1..Len(source) : source[i] \notin {"\n", "\"", "'"}
ErrorTokens == { i \in 1..Len(tokens) : tokens[i].class.k = "Error" }

Quotes == {"\"", "'"}
\* the offset of the first occurrence of the quote q at or after i that no
\* backslash escapes, 0 when there is none
RECURSIVE ClosingQuote(_, _, _)
ClosingQuote(src, q, i) ==
    IF i > Len(src) THEN 0
    ELSE IF src[i] = "\\" THEN ClosingQuote(src, q, i + 2)
    ELSE IF src[i] = q THEN i
    ELSE ClosingQuote(src, q, i + 1)
\* the value the characters i..(j - 1) of a literal denote
RECURSIVE Unescaped(_, _, _)
Unescaped(src, i, j) ==
    IF i >= j THEN <<>>
    ELSE IF src[i] = "\\"
         THEN (IF src[i + 1] \in Quotes \cup {"\\"} THEN <<src[i + 1]>>
               ELSE IF src[i + 1] = "n" THEN <<"\n">>
               ELSE IF src[i + 1] = "r" THEN <<"\r">>
               ELSE IF src[i + 1] = "t" THEN <<"\t">>
               ELSE <<>>)
              \o Unescaped(src, i + 2, j)
    ELSE <<src[i]>> \o Unescaped(src, i + 1, j)
StartsWithQuote == source # <<>> /\ source[1] \in Quotes

\* C23: a string literal ends at the first unescaped occurrence of the
\* quote that opened it; the other quote and an escaped quote are part of
\* its value; when the source ends before such a quote, also right after a
\* backslash, the token is Error(UnterminatedString).
C23_StringEndsAtSameQuote ==
    (Lexed /\ StartsWithQuote) =>
        LET close == ClosingQuote(source, source[1], 2) IN
        IF close = 0
        THEN /\ tokens[1].class = TError("UnterminatedStringError")
             /\ Len(tokens) = 2
        ELSE tokens[1].class =
                 TLiteral(LString(Unescaped(source, 2, close)))
\* "a\"b" has been lexed: the escaped quote is part of the value a"b and
\* the literal ends at the last character
C23_Witness ==
    /\ Lexed
    /\ source = <<"\"", "a", "\\", "\"", "b", "\"">>
    /\ tokens[1].class = TLiteral(LString(<<"a", "\"", "b">>))
    /\ Len(tokens) = 2
\* 'a"b' denotes a"b as well
C23_OtherQuoteSeen ==
    /\ Lexed
    /\ source = <<"'", "a", "\"", "b", "'">>
    /\ tokens[1].class = TLiteral(LString(<<"a", "\"", "b">>))
\* "a\" is unterminated
C23_UnterminatedSeen ==
    /\ Lexed
    /\ source = <<"\"", "a", "\\", "\"">>
    /\ tokens[1].class = TError("UnterminatedStringError")

\* line and column of the character at the 0-based offset p of the source
Newlines(p) == { i \in 1..p : source[i] = "\n" }
LineOf(p) == 1 + Cardinality(Newlines(p))
ColumnOf(p) ==
    IF Newlines(p) = {} THEN p
    ELSE p - (CHOOSE i \in Newlines(p) : \A j \in Newlines(p) : j <= i)
\* the step adds a token; First is the offset of the first character of
\* that token, and for the Eof token the offset just past the last
\* character
EmitsToken == pc = "lex" /\ Len(tokens') = Len(tokens) + 1
First ==
    IF tokens'[Len(tokens')].class.k = "Eof" THEN Len(source) ELSE lexer.pos

\* C24: every token lex emits carries the line and the column of its first
\* character, and the Eof token those of the position just past the last
\* character, for every source.
C24_TokenPositions ==
    [][ EmitsToken =>
            /\ tokens'[Len(tokens')].line = LineOf(First)
            /\ tokens'[Len(tokens')].start = ColumnOf(First) ]_vars

Compared == calc.op = "compare" /\ IsNumeric(calc.self) /\ IsNumeric(calc.other)

\* C25: for numeric values a and b of either kind, greater_equal(a, b) is
\* true exactly when less(a, b) is false, and less_equal(a, b) is true
\* exactly when greater(a, b) is false.
C25_OrderComplements ==
    Compared =>
        /\ calc.greater_equal = Ok(LBool(~calc.less.v.b))
        /\ calc.less_equal = Ok(LBool(~calc.greater.v.b))

\* the tokens of the source are those of one expression statement: the
\* whole run is what make_expr is given
ExprTokens == {"Literal", "Ident", "Operator", "Unary", "Lparen", "Rparen"}
IsExprRun == Run # <<>> /\ \A i \in 1..Len(Run) : Run[i].class.k \in ExprTokens
Unbalanced(ts) == StrayParen(ts, 1, 0) \/ OpenParens(ts, 1, <<>>) # <<>>

\* C26: make_expr returns an expression only for token runs whose
\* parentheses are balanced: a run with a ')' that closes nothing, like a
\* run with a '(' that is never closed, is rejected.
C26_BalancedParentheses ==
    (pc = "parsed" /\ IsExprRun /\ Unbalanced(Run)) => result.r = "Err"

\* token i stands where an operand is expected: at the start, or after a
\* token that is neither an operand nor a closing parenthesis
OperandExpectedAt(i) ==
    i = 1 \/ tokens[i - 1].class.k \notin {"Literal", "Ident", "Rparen"}
Minus5 == Un("Neg", new_literal(LNumber(5)))

\* C27: a '-' written where an operand is expected is a negation of the
\* operand that follows, wherever the expression starts: let a = -5 yields
\* Assign(a, Negate(5)) and (-5) yields Negate(5).
C27_PrefixMinusNegates ==
    /\ Lexed =>
           \A i \in 1..Len(tokens) :
               (IsMinusToken(tokens[i]) /\ OperandExpectedAt(i)) =>
                   IsNeg(tokens[i])
    /\ (pc = "parsed" /\ source = SrcLetMinus) =>
           result = [r |-> "Ok", block |-> <<SAssign(<<"a">>, Minus5)>>]
    /\ (pc = "parsed" /\ source = SrcParenMinus) =>
           result = [r |-> "Ok", block |-> <<SExpr(Minus5)>>]

\* the index of the ')' that matches a '(' once depth of them are open at
\* token i, 0 when there is none
RECURSIVE MatchingParen(_, _, _)
MatchingParen(ts, i, depth) ==
    IF i > Len(ts) THEN 0
    ELSE IF ts[i].class.k = "Lparen" THEN MatchingParen(ts, i + 1, depth + 1)
    ELSE IF ts[i].class.k = "Rparen"
    THEN IF depth = 1 THEN i ELSE MatchingParen(ts, i + 1, depth - 1)
    ELSE MatchingParen(ts, i + 1, depth)
CondEnd == MatchingParen(tokens, 3, 1)
CondTokens == SubSeq(tokens, 3, CondEnd - 1)
\* the source is while ( condition ) { } and the text of the condition is
\* an expression
IsEmptyLoop ==
    /\ Len(tokens) >= 6
    /\ tokens[1].class = TKeyword("While")
    /\ tokens[2].class.k = "Lparen"
    /\ CondEnd # 0
    /\ Len(tokens) = CondEnd + 3
    /\ tokens[CondEnd + 1].class.k = "Lbrace"
    /\ tokens[CondEnd + 2].class.k = "Rbrace"
    /\ make_expr(CondTokens, tokens[CondEnd]).r = "Ok"
HasInnerParens == \E i \in 3..(CondEnd - 1) : tokens[i].class.k = "Lparen"

\* C28: the condition of a while is the token run between the '(' after
\* while and the ')' that matches it, and the While holds the Expr that the
\* same run yields as an expression, also when the condition holds
\* parentheses of its own.
C28_ConditionToMatchingParen ==
    (pc \in {"parsed", "parse_panic"} /\ IsEmptyLoop) =>
        /\ pc = "parsed"
        /\ result =
               [r |-> "Ok",
                block |-> << SWhile(make_expr(CondTokens, tokens[CondEnd]).expr,
                                    SBlock(<<>>)) >>]

\* C29: the token kinds do not depend on spaces between an operand and an
\* operator: x op y lexes to operand, operator, operand, Eof whether the
\* three are separated by spaces or not.
C29_SpacesDoNotMatter ==
    (Lexed /\ source \in TightSources \cup SpacedSources) =>
        /\ Len(tokens) = 4
        /\ IsOperand(tokens[1])
        /\ tokens[2].class.k = "Operator"
        /\ IsOperand(tokens[3])
        /\ tokens[4].class.k = "Eof"

\* the number of iterations the token loop of make_expr makes on a run
RECURSIVE ExprIterations(_, _, _, _)
ExprIterations(run, operands, operators, expect) ==
    IF run = <<>> THEN 0
    ELSE LET a == expr_arm(Head(run), operands, operators, expect) IN
         IF a.st \in {"err", "panic"} THEN 1
         ELSE 1 + ExprIterations(IF a.st = "redo" THEN run ELSE Tail(run),
                                 a.operands, a.operators, a.expect)
UnaryCount(ts) == Cardinality({ i \in 1..Len(ts) : ts[i].class.k = "Unary" })
\* the parser is about to start on the tokens
ParseStarts == pc = "parse" /\ pos = 0

\* C30: Parser::parse terminates on every token sequence lex returns: a
\* call of make_block at any position, at the top level or nested, ends
\* beyond the position it started at (or in the panic of an unwrap), the
\* token loop of make_expr passes each token once and once more for each
\* unary operator it pops, every iteration of the loop of parse moves the
\* position forward, and the loop ends as soon as the position has reached
\* the Eof token, which is the current token from there on (a block that
\* meets Eof moves the position beyond the last token).
C30_ParseTerminates ==
    /\ [](ParseStarts =>
              \A p \in 0..Len(tokens) :
                  \/ make_block(tokens, p).r = "Panic"
                  \/ make_block(tokens, p).pos > p)
    /\ [](ParseStarts =>
              \A i \in 1..Len(tokens) : \A j \in i..Len(tokens) :
                  ExprIterations(SubSeq(tokens, i, j), <<>>, <<>>, "Operand")
                      <= (j - i + 1) + UnaryCount(SubSeq(tokens, i, j)))
    /\ [][ (pc = "parse" /\ pc' = "parse") => pos' > pos ]_vars
    /\ [](pc = "parse" =>
              (/\ pos <= 2 * Len(tokens)
               /\ \A p \in (Len(tokens) - 1)..(2 * Len(tokens)) :
                      get_current_token(tokens, p).class.k = "Eof"))
    /\ [][ (pc = "parse" /\ get_current_token(tokens, pos).class.k = "Eof")
               => pc' = "parsed" ]_vars
\* { let ; } print a has been parsed: a block, a statement in error inside
\* it, and a statement after it, up to the Eof token
C30_Witness ==
    /\ pc = "parsed"
    /\ source = Join(<<N("{"), WLet, N(";"), N("}"), WPrint, N("a")>>)
    /\ result.r = "Err"
    /\ get_current_token(tokens, pos).class.k = "Eof"
    /\ pos >= Len(tokens) - 1

============================================================================
